---------------------------- MODULE Spec2Model ----------------------------
(***************************************************************************)
(* Model of the Decimal binary encoder (src/binary/decimal.rs) and of the  *)
(* Timestamp builder (src/types/timestamp.rs) of ion-rust.                 *)
(*                                                                         *)
(* A magnitude is kept as its minimal big-endian byte sequence (<<>> is    *)
(* zero), so that 64-bit and arbitrary-precision coefficients are exact.   *)
(***************************************************************************)
EXTENDS Integers, Sequences, FiniteSets, TLC

VARIABLES
  pc,          \* position of the modelled caller
  dec,         \* the Decimal handed to the encoder
  sink,        \* bytes held by the caller's sink
  sinkBefore,  \* bytes the sink held before the call
  ret,         \* the IonResult<usize> the encoder returned
  decoded,     \* what the external reader decodes from the sink
  profile,     \* build profile: "debug" (overflow checks) or "release"
  stage,       \* the setter type the builder chain is at
  builder,     \* the TimestampBuilder record
  args,        \* the arguments as the caller passed them (before any cast)
  result,      \* outcome of the finalization
  left,        \* a built Timestamp and the calls that built it
  right,       \* a second one, compared with the first
  third,       \* a third one, for chains of comparisons
  eq_result,   \* what left == right returned
  ion_eq_result, \* what left.ion_eq(right) returned
  into,        \* what a conversion of the built Timestamp returned
  text         \* what the formatter wrote for the built Timestamp

vars ==
  <<pc, dec, sink, sinkBefore, ret, decoded, profile, stage, builder, args, result,
    left, right, third, eq_result, ion_eq_result, into, text>>

decVars == <<pc, dec, sink, sinkBefore, ret, decoded>>
tsVars == <<profile, stage, builder, args, result>>
cmpVars == <<left, right, third, eq_result, ion_eq_result>>
useVars == <<into, text>>

\* Option<T>: None is the empty sequence, Some(x) the one-element sequence
None == <<>>
Some(x) == <<x>>
IsSome(o) == o # <<>>
Unwrap(o) == o[1]

\* no call has returned yet
Pending == [kind |-> "Pending"]

-----------------------------------------------------------------------------
(* Bounds of the model *)

\* longest coefficient magnitude, in bytes
MaxMagBytes == 17

-----------------------------------------------------------------------------
(* Bytes and sequences *)

RECURSIVE Pow(_, _)
Pow(b, n) == IF n = 0 THEN 1 ELSE b * Pow(b, n - 1)

Repeat(b, n) == [i \in 1..n |-> b]

Tail_n(s, k) == SubSeq(s, k + 1, Len(s))

\* number of 7-bit groups a magnitude needs when the first group has `first` bits
RECURSIVE GroupsNeeded(_, _)
GroupsNeeded(m, first) ==
  IF m < Pow(2, first) THEN 1 ELSE 1 + GroupsNeeded(m \div 128, first)


-----------------------------------------------------------------------------
(* Sign, Magnitude, Coefficient, Decimal (types/coefficient.rs,            *)
(* types/magnitude.rs, types/decimal.rs)                                   *)

Positive == "Positive"
Negative == "Negative"

\* a magnitude that fits Magnitude::U64
U64_BYTES == 8

IsU64(mag) == Len(mag) <= U64_BYTES

magnitude_is_zero(mag) == mag = <<>>

Coefficient(sign, mag) == [sign |-> sign, magnitude |-> mag]

Decimal(sign, mag, exponent) ==
  [coefficient |-> Coefficient(sign, mag), exponent |-> exponent]

is_negative_zero(c) == c.sign = Negative /\ magnitude_is_zero(c.magnitude)

coefficient_is_zero(c) == magnitude_is_zero(c.magnitude)

\* Coefficient::as_i64: Some(_) iff the magnitude is a U64 that fits an i64
as_i64_is_some(c) ==
  \/ Len(c.magnitude) < U64_BYTES
  \/ Len(c.magnitude) = U64_BYTES /\ c.magnitude[1] < 128

\* value of a short magnitude as a number (used where the code does arithmetic)
RECURSIVE MagValue(_)
MagValue(mag) ==
  IF mag = <<>> THEN 0 ELSE MagValue(SubSeq(mag, 1, Len(mag) - 1)) * 256 + mag[Len(mag)]

\* the minimal big-endian bytes of a number
RECURSIVE MagOf(_)
MagOf(n) == IF n = 0 THEN <<>> ELSE Append(MagOf(n \div 256), n % 256)

RECURSIVE num_decimal_digits(_)
num_decimal_digits(n) == IF n < 10 THEN 1 ELSE 1 + num_decimal_digits(n \div 10)

\* representation equality of two Decimals: sign, magnitude and exponent match
DecimalIonEq(d1, d2) ==
  /\ d1.exponent = d2.exponent
  /\ d1.coefficient.sign = d2.coefficient.sign
  /\ d1.coefficient.magnitude = d2.coefficient.magnitude

\* value equality of two Decimals: zeros are equal whatever their sign and
\* exponent; otherwise the signs agree and the scaled coefficients agree
DecimalEq(d1, d2) ==
  IF coefficient_is_zero(d1.coefficient) \/ coefficient_is_zero(d2.coefficient)
  THEN coefficient_is_zero(d1.coefficient) /\ coefficient_is_zero(d2.coefficient)
  ELSE /\ d1.coefficient.sign = d2.coefficient.sign
       /\ LET e == IF d1.exponent < d2.exponent THEN d1.exponent ELSE d2.exponent
          IN  MagValue(d1.coefficient.magnitude) * Pow(10, d1.exponent - e)
                = MagValue(d2.coefficient.magnitude) * Pow(10, d2.exponent - e)

DECIMAL_BUFFER_SIZE == 16

MAX_INLINE_LENGTH == 13

\* DECIMAL_POSITIVE_ZERO with a wrong exponent
DECIMAL_POSITIVE_ZERO_exp10 == Decimal(Positive, <<>>, 10)

DECIMAL_POSITIVE_ZERO == Decimal(Positive, <<>>, 0)

-----------------------------------------------------------------------------
(* Byte sinks (std::io::Write).  A Vec<u8> never fails; an ArrayVec<u8, N> *)
(* accepts bytes up to its capacity and write_all fails once it is full.   *)

NoLimit == -1

VecSink(bytes) == [bytes |-> bytes, cap |-> NoLimit]

ArrayVecNew(cap) == [bytes |-> <<>>, cap |-> cap]

write_all(s, data) ==
  IF s.cap = NoLimit \/ Len(s.bytes) + Len(data) <= s.cap
  THEN [sink |-> [s EXCEPT !.bytes = @ \o data], ok |-> TRUE, n |-> Len(data)]
  ELSE [sink |-> [s EXCEPT !.bytes = @ \o SubSeq(data, 1, s.cap - Len(s.bytes))],
        ok |-> FALSE, n |-> 0]

-----------------------------------------------------------------------------
(* Primitive integer codecs (binary/var_int.rs, binary/var_uint.rs,        *)
(* binary/int.rs)                                                          *)

Abs(v) == IF v < 0 THEN -v ELSE v

\* VarInt: 7 bits per byte, big-endian; bit 6 of the first byte is the sign,
\* bit 7 of the last byte is the end flag
VarIntBytes(v) ==
  LET m == Abs(v)
      n == GroupsNeeded(m, 6)
  IN  [i \in 1..n |->
         ((m \div Pow(128, n - i)) % 128)
         + (IF i = 1 /\ v < 0 THEN 64 ELSE 0)
         + (IF i = n THEN 128 ELSE 0)]

\* VarUInt: 7 bits per byte, big-endian; bit 7 of the last byte is the end flag
VarUIntBytes(v) ==
  LET n == GroupsNeeded(v, 7)
  IN  [i \in 1..n |->
         ((v \div Pow(128, n - i)) % 128) + (IF i = n THEN 128 ELSE 0)]

VarInt_write_i64(s, v) == write_all(s, VarIntBytes(v))

VarUInt_write_u64(s, v) == write_all(s, VarUIntBytes(v))

\* DecodedInt::write_i64: the magnitude's bytes with room for a sign bit,
\* the sign folded into the first byte
IntBytes(sign, mag) ==
  LET padded == IF mag = <<>> \/ mag[1] >= 128 THEN <<0>> \o mag ELSE mag
  IN  IF sign = Negative THEN [padded EXCEPT ![1] = @ + 128] ELSE padded

DecodedInt_write_i64(s, sign, mag) == write_all(s, IntBytes(sign, mag))

DecodedInt_write_negative_zero(s) == write_all(s, <<128>>)

-----------------------------------------------------------------------------
(* DecimalBinaryEncoder (binary/decimal.rs)                                *)

Ok(s, n) == [sink |-> s, ok |-> TRUE, n |-> n]
Err(s) == [sink |-> s, ok |-> FALSE, n |-> 0]

\* line 76-79: the magnitude's bytes on the allocating path
coefficient_bytes_of(mag) ==
  IF IsU64(mag)
  THEN Repeat(0, U64_BYTES - Len(mag)) \o mag       \* u64::to_be_bytes
  ELSE mag                                          \* BigUint::to_bytes_be

\* a fold that never writes a leading byte: the sign goes into the first
\* magnitude byte whatever its leading bit
write_big_coefficient_in_place(s, c) ==
  LET coefficient_bytes == coefficient_bytes_of(c.magnitude)
      folded == IF c.sign = Negative /\ coefficient_bytes[1] < 128
                THEN [coefficient_bytes EXCEPT ![1] = @ + 128]
                ELSE coefficient_bytes
  IN  write_all(s, folded)

\* line 81-103: fold the sign into the leading bit and write the bytes
write_big_coefficient(s, c) ==
  LET coefficient_bytes == coefficient_bytes_of(c.magnitude)
      first_bit_is_zero == coefficient_bytes[1] < 128
      extra == IF c.sign = Negative THEN <<128>> ELSE <<0>>
      folded == IF c.sign = Negative /\ first_bit_is_zero
                THEN [coefficient_bytes EXCEPT ![1] = @ + 128]
                ELSE coefficient_bytes
  IN  IF first_bit_is_zero
      THEN write_all(s, folded)
      ELSE LET w == write_all(s, extra)
           IN  IF ~w.ok THEN Err(w.sink)
               ELSE LET w2 == write_all(w.sink, folded)
                    IN  IF ~w2.ok THEN Err(w2.sink) ELSE Ok(w2.sink, 1 + w2.n)

\* encode_decimal testing the empty encoding with value equality (==)
\* where the code uses ion_eq
encode_decimal_value_eq_zero(s, decimal) ==
  IF DecimalEq(decimal, DECIMAL_POSITIVE_ZERO) THEN Ok(s, 0)
  ELSE
    LET we == VarInt_write_i64(s, decimal.exponent)
    IN  IF ~we.ok THEN Err(we.sink)
        ELSE IF is_negative_zero(decimal.coefficient)
        THEN LET wz == DecodedInt_write_negative_zero(we.sink)
             IN  IF ~wz.ok THEN Err(wz.sink) ELSE Ok(wz.sink, we.n + wz.n)
        ELSE IF as_i64_is_some(decimal.coefficient)
        THEN IF coefficient_is_zero(decimal.coefficient)
             THEN Ok(we.sink, we.n)
             ELSE LET wc == DecodedInt_write_i64(we.sink, decimal.coefficient.sign,
                                                 decimal.coefficient.magnitude)
                  IN  IF ~wc.ok THEN Err(wc.sink) ELSE Ok(wc.sink, we.n + wc.n)
        ELSE LET wb == write_big_coefficient(we.sink, decimal.coefficient)
             IN  IF ~wb.ok THEN Err(wb.sink) ELSE Ok(wb.sink, we.n + wb.n)

encode_decimal(s, decimal) ==
  IF DecimalIonEq(decimal, DECIMAL_POSITIVE_ZERO) THEN Ok(s, 0)
  ELSE
    LET we == VarInt_write_i64(s, decimal.exponent)
    IN  IF ~we.ok THEN Err(we.sink)
        ELSE IF is_negative_zero(decimal.coefficient)
        THEN LET wz == DecodedInt_write_negative_zero(we.sink)
             IN  IF ~wz.ok THEN Err(wz.sink) ELSE Ok(wz.sink, we.n + wz.n)
        ELSE IF as_i64_is_some(decimal.coefficient)
        THEN IF coefficient_is_zero(decimal.coefficient)
             THEN Ok(we.sink, we.n)
             ELSE LET wc == DecodedInt_write_i64(we.sink, decimal.coefficient.sign,
                                                 decimal.coefficient.magnitude)
                  IN  IF ~wc.ok THEN Err(wc.sink) ELSE Ok(wc.sink, we.n + wc.n)
        ELSE LET wb == write_big_coefficient(we.sink, decimal.coefficient)
             IN  IF ~wb.ok THEN Err(wb.sink) ELSE Ok(wb.sink, we.n + wb.n)

\* encode_decimal_value that hands the sink whatever the scratch buffer holds
\* when the content did not fit
encode_decimal_value_flushes_scratch(s, decimal) ==
  LET enc == encode_decimal(ArrayVecNew(DECIMAL_BUFFER_SIZE), decimal)
      encoded == enc.sink.bytes
  IN  IF ~enc.ok THEN Err(write_all(s, encoded).sink)
      ELSE
        LET wd == IF Len(encoded) <= MAX_INLINE_LENGTH
                  THEN write_all(s, <<80 + Len(encoded)>>)
                  ELSE write_all(s, <<94>>)
            wl == IF Len(encoded) <= MAX_INLINE_LENGTH
                  THEN Ok(wd.sink, 0)
                  ELSE VarUInt_write_u64(wd.sink, Len(encoded))
            wc == write_all(wl.sink, encoded)
        IN  Ok(wc.sink, 1 + wl.n + Len(encoded))

\* encode_decimal_value that does not count the bytes of the length prefix
encode_decimal_value_miscount(s, decimal) ==
  LET enc == encode_decimal(ArrayVecNew(DECIMAL_BUFFER_SIZE), decimal)
      encoded == enc.sink.bytes
  IN  IF ~enc.ok THEN Err(s)
      ELSE
        LET wd == IF Len(encoded) <= MAX_INLINE_LENGTH
                  THEN write_all(s, <<80 + Len(encoded)>>)
                  ELSE write_all(s, <<94>>)
            wl == IF Len(encoded) <= MAX_INLINE_LENGTH
                  THEN Ok(wd.sink, 0)
                  ELSE VarUInt_write_u64(wd.sink, Len(encoded))
            wc == write_all(wl.sink, encoded)
        IN  Ok(wc.sink, 1 + Len(encoded))

\* encode_decimal_value comparing the length with < where the code uses <=
encode_decimal_value_lt(s, decimal) ==
  LET enc == encode_decimal(ArrayVecNew(DECIMAL_BUFFER_SIZE), decimal)
      encoded == enc.sink.bytes
  IN  IF ~enc.ok THEN Err(s)
      ELSE
        LET wd == IF Len(encoded) < MAX_INLINE_LENGTH
                  THEN write_all(s, <<80 + Len(encoded)>>)
                  ELSE write_all(s, <<94>>)
            wl == IF Len(encoded) < MAX_INLINE_LENGTH
                  THEN Ok(wd.sink, 0)
                  ELSE VarUInt_write_u64(wd.sink, Len(encoded))
            wc == write_all(wl.sink, encoded)
        IN  Ok(wc.sink, 1 + wl.n + Len(encoded))

encode_decimal_value(s, decimal) ==
  LET enc == encode_decimal(ArrayVecNew(DECIMAL_BUFFER_SIZE), decimal)
      encoded == enc.sink.bytes
  IN  IF ~enc.ok THEN Err(s)
      ELSE
        LET wd == IF Len(encoded) <= MAX_INLINE_LENGTH
                  THEN write_all(s, <<80 + Len(encoded)>>)
                  ELSE write_all(s, <<94>>)
        IN  IF ~wd.ok THEN Err(wd.sink)
            ELSE
              LET wl == IF Len(encoded) <= MAX_INLINE_LENGTH
                        THEN Ok(wd.sink, 0)
                        ELSE VarUInt_write_u64(wd.sink, Len(encoded))
              IN  IF ~wl.ok THEN Err(wl.sink)
                  ELSE LET wc == write_all(wl.sink, encoded)
                       IN  IF ~wc.ok THEN Err(wc.sink)
                           ELSE Ok(wc.sink, 1 + wl.n + Len(encoded))

-----------------------------------------------------------------------------
(* The external reader's decoding of a decimal value                       *)

\* index of the byte carrying the end flag, starting at position i
RECURSIVE EndFlagAt(_, _)
EndFlagAt(bytes, i) ==
  IF i > Len(bytes) THEN 0
  ELSE IF bytes[i] >= 128 THEN i ELSE EndFlagAt(bytes, i + 1)

RECURSIVE UnsignedOfGroups(_)
UnsignedOfGroups(groups) ==
  IF groups = <<>> THEN 0
  ELSE UnsignedOfGroups(SubSeq(groups, 1, Len(groups) - 1)) * 128
         + (groups[Len(groups)] % 128)

read_var_uint(bytes) ==
  LET e == EndFlagAt(bytes, 1)
  IN  [value |-> UnsignedOfGroups(SubSeq(bytes, 1, e)), size |-> e]

read_var_int(bytes) ==
  LET e == EndFlagAt(bytes, 1)
      negative == (bytes[1] % 128) >= 64
      first == bytes[1] % 64
      m == first * Pow(128, e - 1) + UnsignedOfGroups(SubSeq(bytes, 2, e))
  IN  [value |-> IF negative THEN -m ELSE m, size |-> e]

RECURSIVE StripLeadingZeros(_)
StripLeadingZeros(bytes) ==
  IF bytes = <<>> THEN <<>>
  ELSE IF bytes[1] = 0 THEN StripLeadingZeros(Tail(bytes)) ELSE bytes

\* the coefficient subfield: empty is positive zero, otherwise sign bit then magnitude
read_coefficient(bytes) ==
  IF bytes = <<>> THEN Coefficient(Positive, <<>>)
  ELSE Coefficient(IF bytes[1] >= 128 THEN Negative ELSE Positive,
                   StripLeadingZeros([bytes EXCEPT ![1] = @ % 128]))

read_decimal_content(content) ==
  IF content = <<>> THEN Some(DECIMAL_POSITIVE_ZERO)
  ELSE LET e == read_var_int(content)
       IN  Some([coefficient |-> read_coefficient(Tail_n(content, e.size)),
                 exponent |-> e.value])

\* descriptor, optional VarUInt length, content; None when the bytes are not
\* one complete decimal value
read_decimal_value(bytes) ==
  IF bytes = <<>> \/ bytes[1] \div 16 # 5 \/ bytes[1] % 16 = 15 THEN None
  ELSE IF bytes[1] % 16 <= MAX_INLINE_LENGTH
  THEN IF Len(bytes) # 1 + (bytes[1] % 16) THEN None
       ELSE read_decimal_content(Tail(bytes))
  ELSE IF EndFlagAt(bytes, 2) = 0 THEN None
  ELSE LET l == read_var_uint(Tail(bytes))
       IN  IF Len(bytes) # 1 + l.size + l.value THEN None
           ELSE read_decimal_content(Tail_n(bytes, 1 + l.size))

-----------------------------------------------------------------------------
(* 32-bit arguments.  A u32 is kept as two 16-bit halves so that casts and *)
(* wrapping arithmetic are exact.                                          *)

TwoTo16 == 65536

U32(n) == [hi |-> n \div TwoTo16, lo |-> n % TwoTo16]

U32_MAX == [hi |-> 65535, lo |-> 65535]

U32Eq(a, n) == a = U32(n)
U32Lt(a, n) == a.hi < n \div TwoTo16 \/ (a.hi = n \div TwoTo16 /\ a.lo < n % TwoTo16)
U32Gt(a, n) == a.hi > n \div TwoTo16 \/ (a.hi = n \div TwoTo16 /\ a.lo > n % TwoTo16)
U32Ge(a, n) == ~U32Lt(a, n)

\* the value of a u32 known to be below 2^31
U32Val(a) == a.hi * TwoTo16 + a.lo

as_u16(a) == a.lo
as_u8(a) == a.lo % 256

\* a * k in u32 arithmetic, k < 2^16: the wrapped product and whether the
\* exact product overflowed
U32Mul(a, k) ==
  LET p0 == a.lo * k
      p1 == a.hi * k + p0 \div TwoTo16
  IN  [value |-> [hi |-> p1 % TwoTo16, lo |-> p0 % TwoTo16],
       overflow |-> p1 >= TwoTo16]

\* a + 1 in u32 arithmetic
U32Add1(a) ==
  IF a = U32_MAX THEN [value |-> U32(0), overflow |-> TRUE]
  ELSE [value |-> IF a.lo = 65535 THEN [hi |-> a.hi + 1, lo |-> 0]
                  ELSE [hi |-> a.hi, lo |-> a.lo + 1],
        overflow |-> FALSE]

\* a * k in i32 arithmetic, 0 < k < 2^15: the wrapped product and whether
\* the exact product overflowed
I32_MAX == 2147483647

I32Mul(a, k) ==
  LET hi == IF a >= 0 THEN a \div TwoTo16 ELSE -((-a + TwoTo16 - 1) \div TwoTo16)
      lo == a - hi * TwoTo16
      p0 == lo * k
      p1 == hi * k + p0 \div TwoTo16
      h == p1 % TwoTo16
  IN  [value |-> (IF h >= 32768 THEN h - TwoTo16 ELSE h) * TwoTo16 + (p0 % TwoTo16),
       overflow |-> a > I32_MAX \div k \/ a < -(I32_MAX \div k) - 1
                      \/ (a = -(I32_MAX \div k) - 1 /\ (I32_MAX % k) # k - 1)]

-----------------------------------------------------------------------------
(* The calendar (chrono's NaiveDateTime, DateTime<FixedOffset>)            *)

IsLeapYear(y) == (y % 4 = 0 /\ y % 100 # 0) \/ y % 400 = 0

DaysInMonth(y, m) ==
  IF m = 2 THEN (IF IsLeapYear(y) THEN 29 ELSE 28)
  ELSE IF m \in {4, 6, 9, 11} THEN 30 ELSE 31

\* NaiveDate::from_ymd(0, 1, 1).and_hms_nano(0, 0, 0, 0)
ZeroDateTime ==
  [year |-> 0, month |-> 1, day |-> 1, hour |-> 0, minute |-> 0, second |-> 0,
   nanosecond |-> 0]

\* Datelike / Timelike setters: None when the resulting date-time is invalid
dt_with_year(dt, y) ==
  IF dt.day <= DaysInMonth(y, dt.month) THEN Some([dt EXCEPT !.year = y]) ELSE None

dt_with_month(dt, m) ==
  IF m >= 1 /\ m <= 12 /\ dt.day <= DaysInMonth(dt.year, m)
  THEN Some([dt EXCEPT !.month = m]) ELSE None

dt_with_day(dt, d) ==
  IF d >= 1 /\ d <= DaysInMonth(dt.year, dt.month)
  THEN Some([dt EXCEPT !.day = d]) ELSE None

dt_with_hour(dt, h) == IF h < 24 THEN Some([dt EXCEPT !.hour = h]) ELSE None

dt_with_minute(dt, m) == IF m < 60 THEN Some([dt EXCEPT !.minute = m]) ELSE None

dt_with_second(dt, sec) == IF sec < 60 THEN Some([dt EXCEPT !.second = sec]) ELSE None

\* the nanosecond may exceed 999,999,999 to represent a leap second
MAX_NANOSECOND == 2000000000

dt_with_nanosecond(dt, nano) ==
  IF U32Lt(nano, MAX_NANOSECOND)
  THEN Some([dt EXCEPT !.nanosecond = U32Val(nano)]) ELSE None

NextDay(dt) ==
  IF dt.day < DaysInMonth(dt.year, dt.month) THEN [dt EXCEPT !.day = @ + 1]
  ELSE IF dt.month < 12 THEN [dt EXCEPT !.month = @ + 1, !.day = 1]
  ELSE [dt EXCEPT !.year = @ + 1, !.month = 1, !.day = 1]

PrevDay(dt) ==
  IF dt.day > 1 THEN [dt EXCEPT !.day = @ - 1]
  ELSE IF dt.month > 1
  THEN [dt EXCEPT !.month = @ - 1, !.day = DaysInMonth(dt.year, dt.month - 1)]
  ELSE [dt EXCEPT !.year = @ - 1, !.month = 12, !.day = 31]

SECONDS_PER_DAY == 86400

\* the date-time `delta` seconds later (|delta| < 86400); the nanosecond is kept
AddSeconds(dt, delta) ==
  LET t == dt.hour * 3600 + dt.minute * 60 + dt.second + delta
      shifted == IF t < 0 THEN PrevDay(dt)
                 ELSE IF t >= SECONDS_PER_DAY THEN NextDay(dt) ELSE dt
      u == (t + SECONDS_PER_DAY) % SECONDS_PER_DAY
  IN  [shifted EXCEPT !.hour = u \div 3600, !.minute = (u % 3600) \div 60,
                      !.second = u % 60]

\* FixedOffset::east_opt: the offset in seconds, when within a day
FixedOffset_east_opt(secs) ==
  IF secs > -SECONDS_PER_DAY /\ secs < SECONDS_PER_DAY THEN Some(secs) ELSE None

\* a DateTime<FixedOffset> is its UTC date-time and its offset
from_utc_datetime(offset, dt) == [utc |-> dt, offset |-> offset]

\* a fixed offset maps every local date-time to exactly one instant
from_local_datetime(offset, dt) ==
  [kind |-> "Single", datetime |-> [utc |-> AddSeconds(dt, -offset), offset |-> offset]]

-----------------------------------------------------------------------------
(* Precision, Mantissa, Timestamp (types/timestamp.rs)                     *)

Year == "Year"
Month == "Month"
Day == "Day"
HourAndMinute == "HourAndMinute"
Second == "Second"

\* the derived PartialOrd of Precision: the order of declaration
PrecisionRank(p) ==
  CASE p = Year -> 0 [] p = Month -> 1 [] p = Day -> 2
    [] p = HourAndMinute -> 3 [] p = Second -> 4

Digits(n) == [kind |-> "Digits", digits |-> n]
Arbitrary(d) == [kind |-> "Arbitrary", decimal |-> d]

\* Decimal::is_less_than_zero: a negative sign and a non-zero magnitude
is_less_than_zero(d) ==
  d.coefficient.sign = Negative /\ ~magnitude_is_zero(d.coefficient.magnitude)

\* Decimal::is_greater_than_or_equal_to_one
is_greater_than_or_equal_to_one(d) ==
  /\ ~magnitude_is_zero(d.coefficient.magnitude)
  /\ \/ d.exponent >= 0
     \/ num_decimal_digits(MagValue(d.coefficient.magnitude)) > -d.exponent

\* Timestamp::offset: the offset in minutes, when known
Timestamp_offset(ts) ==
  IF IsSome(ts.offset)
  THEN Some(IF Unwrap(ts.offset) >= 0 THEN Unwrap(ts.offset) \div 60
            ELSE -((-Unwrap(ts.offset)) \div 60))
  ELSE None

\* From<NaiveDateTime> for Timestamp
Timestamp_from_naive(date_time) ==
  [date_time |-> date_time, offset |-> None, precision |-> Second,
   fractional_seconds |-> Some(Digits(U32(9)))]

\* From<DateTime<FixedOffset>> for Timestamp
Timestamp_from_fixed(fixed_offset_date_time) ==
  [date_time |-> fixed_offset_date_time.utc,
   offset |-> Some(fixed_offset_date_time.offset),
   precision |-> Second,
   fractional_seconds |-> Some(Digits(U32(9)))]

\* Timestamp::from_datetime, given the Timestamp the date-time converts into
from_datetime(converted, precision) ==
  [converted EXCEPT
     !.fractional_seconds =
        IF PrecisionRank(precision) < PrecisionRank(Second) THEN None ELSE @,
     !.precision = precision]

\* IonResult: Ok with the value, or the illegal-operation error
OkDateTime(dt) == [kind |-> "Ok", datetime |-> dt]
OkTimestamp(ts) == [kind |-> "Ok", timestamp |-> ts]
IllegalOperation == [kind |-> "Err"]

\* a panic unwinds out of the call
Panic == [kind |-> "Panic"]

\* an arithmetic overflow panics where overflow checks are compiled in
Overflowed(r) == r.overflow /\ profile = "debug"

-----------------------------------------------------------------------------
(* Equality of Timestamps: PartialEq and IonEq (types/timestamp.rs)        *)

\* the outcome of a comparison: a bool, or a panic on the way
Returned(v) == [kind |-> "Ok", value |-> v]

\* EmptyMantissa for Decimal
Decimal_is_empty(d) == coefficient_is_zero(d.coefficient) /\ d.exponent = 0

\* EmptyMantissa for Mantissa
Mantissa_is_empty(m) ==
  IF m.kind = "Digits" THEN U32Val(m.digits) = 0 ELSE Decimal_is_empty(m.decimal)

decimals_equal(d1, d2) ==
  \/ Decimal_is_empty(d1) /\ Decimal_is_empty(d2)
  \/ DecimalEq(d1, d2)
  \/ /\ coefficient_is_zero(d1.coefficient) /\ coefficient_is_zero(d2.coefficient)
     /\ d1.exponent = d2.exponent

\* 10u32.pow(k) for k <= 10: 10^10 exceeds u32 and wraps to 1410065408
U32Pow10(k) ==
  IF k < 10 THEN [value |-> Pow(10, k), overflow |-> FALSE]
  ELSE [value |-> 1410065408, overflow |-> TRUE]

\* the first num_digits digits of value (digit counts here are below 2^31)
first_n_digits_of(num_digits, value) ==
  LET total_digits == num_decimal_digits(value) IN
  IF total_digits <= num_digits THEN Returned(value)
  ELSE LET divisor == U32Pow10(total_digits - num_digits)
       IN  IF Overflowed(divisor) THEN Panic
           ELSE Returned(value \div divisor.value)

\* Decimal::scale is the negated exponent
fractional_seconds_scale(ts) ==
  IF ts.fractional_seconds = None THEN None
  ELSE LET m == Unwrap(ts.fractional_seconds)
       IN  IF m.kind = "Digits" THEN Some(U32Val(m.digits))
           ELSE Some(-m.decimal.exponent)

MAX_NANOSECOND_DIGITS == 9

\* Some(Decimal), None, or a panic: MAX_NANOSECOND_DIGITS - digits is u32
\* arithmetic, which underflows when the stored nanoseconds have 10 digits
\* a conversion that takes the leading digits without counting leading zeros
fractional_seconds_as_decimal_no_zeros(ts) ==
  IF ts.fractional_seconds = None THEN Returned(None)
  ELSE
  LET m == Unwrap(ts.fractional_seconds) IN
  IF m.kind = "Arbitrary" THEN Returned(Some(m.decimal))
  ELSE
  LET number_of_digits == U32Val(m.digits)
      coefficient == first_n_digits_of(number_of_digits, ts.date_time.nanosecond)
  IN  IF coefficient.kind = "Panic" THEN Panic
      ELSE Returned(Some(Decimal(Positive, MagOf(coefficient.value),
                                 -number_of_digits)))

fractional_seconds_as_decimal(ts) ==
  IF ts.fractional_seconds = None THEN Returned(None)
  ELSE
  LET m == Unwrap(ts.fractional_seconds) IN
  IF m.kind = "Arbitrary" THEN Returned(Some(m.decimal))
  ELSE
  LET number_of_digits == U32Val(m.digits)
      nanoseconds == ts.date_time.nanosecond
      nano_digits == num_decimal_digits(nanoseconds)
      underflow == [value |-> 0, overflow |-> nano_digits > MAX_NANOSECOND_DIGITS]
      leading_zeros == MAX_NANOSECOND_DIGITS - nano_digits
  IN
  IF Overflowed(underflow) THEN Panic
  ELSE IF underflow.overflow \/ leading_zeros >= number_of_digits
  THEN Returned(Some(Decimal(Positive, MagOf(0), -number_of_digits)))
  ELSE LET coefficient == first_n_digits_of(number_of_digits - leading_zeros,
                                            nanoseconds)
       IN  IF coefficient.kind = "Panic" THEN Panic
           ELSE Returned(Some(Decimal(Positive, MagOf(coefficient.value),
                                      -number_of_digits)))

fractional_seconds_equal(self, other) ==
  LET f1 == self.fractional_seconds
      f2 == other.fractional_seconds
  IN
  IF f1 = None /\ f2 = None THEN Returned(TRUE)
  ELSE IF f2 = None THEN Returned(Mantissa_is_empty(Unwrap(f1)))
  ELSE IF f1 = None THEN Returned(Mantissa_is_empty(Unwrap(f2)))
  ELSE
  LET m1 == Unwrap(f1)
      m2 == Unwrap(f2)
  IN
  IF m1.kind = "Digits" /\ m2.kind = "Digits"
  THEN IF U32Val(m1.digits) # U32Val(m2.digits) THEN Returned(FALSE)
       ELSE LET d1 == first_n_digits_of(U32Val(m1.digits), self.date_time.nanosecond)
                d2 == first_n_digits_of(U32Val(m2.digits), other.date_time.nanosecond)
            IN  IF d1.kind = "Panic" \/ d2.kind = "Panic" THEN Panic
                ELSE Returned(d1.value = d2.value)
  ELSE IF m1.kind = "Arbitrary" /\ m2.kind = "Arbitrary"
  THEN Returned(decimals_equal(m1.decimal, m2.decimal))
  ELSE IF m1.kind = "Digits"
  THEN LET d1 == fractional_seconds_as_decimal(self)
       IN  IF d1.kind = "Panic" THEN Panic
           ELSE Returned(decimals_equal(Unwrap(d1.value), m2.decimal))
  ELSE LET d2 == fractional_seconds_as_decimal(other)
       IN  IF d2.kind = "Panic" THEN Panic
           ELSE Returned(decimals_equal(m1.decimal, Unwrap(d2.value)))

\* PartialEq for DateTime<FixedOffset> compares the instants (the UTC date-times)
DateTime_eq(x, y) == x.utc = y.utc

\* == that also requires the offsets to be both known or both unknown
Timestamp_eq_same_offset_kind(self, other) ==
  LET fractions == fractional_seconds_equal(self, other) IN
  IF fractions.kind = "Panic" THEN Panic
  ELSE IF ~fractions.value THEN Returned(FALSE)
  ELSE IF IsSome(self.offset) # IsSome(other.offset) THEN Returned(FALSE)
  ELSE
  LET self_naive == Unwrap(dt_with_nanosecond(self.date_time, U32(0)))
      other_naive == Unwrap(dt_with_nanosecond(other.date_time, U32(0)))
  IN  Returned(DateTime_eq(from_utc_datetime(0, self_naive),
                           from_utc_datetime(0, other_naive)))

\* PartialEq for Timestamp
Timestamp_eq(self, other) ==
  LET fractions == fractional_seconds_equal(self, other) IN
  IF fractions.kind = "Panic" THEN Panic
  ELSE IF ~fractions.value THEN Returned(FALSE)
  ELSE
  LET self_naive == Unwrap(dt_with_nanosecond(self.date_time, U32(0)))
      other_naive == Unwrap(dt_with_nanosecond(other.date_time, U32(0)))
      self_datetime == IF IsSome(self.offset)
                       THEN from_utc_datetime(Unwrap(self.offset), self_naive)
                       ELSE from_utc_datetime(0, self_naive)
      other_datetime == IF IsSome(other.offset)
                        THEN from_utc_datetime(Unwrap(other.offset), other_naive)
                        ELSE from_utc_datetime(0, other_naive)
  IN  Returned(DateTime_eq(self_datetime, other_datetime))

\* ion_eq without the comparison of the precisions
Timestamp_ion_eq_any_precision(self, other) ==
  LET self_dt == self.date_time
      other_dt == other.date_time
      rank == PrecisionRank(self.precision)
  IN
  IF self.offset # other.offset THEN Returned(FALSE)
  ELSE IF self_dt.year # other_dt.year THEN Returned(FALSE)
  ELSE IF rank >= PrecisionRank(Month) /\ self_dt.month # other_dt.month
  THEN Returned(FALSE)
  ELSE IF rank >= PrecisionRank(Day) /\ self_dt.day # other_dt.day
  THEN Returned(FALSE)
  ELSE IF /\ rank >= PrecisionRank(HourAndMinute)
          /\ (self_dt.hour # other_dt.hour \/ self_dt.minute # other_dt.minute)
  THEN Returned(FALSE)
  ELSE IF rank <= PrecisionRank(HourAndMinute) THEN Returned(TRUE)
  ELSE IF self_dt.second # other_dt.second THEN Returned(FALSE)
  ELSE LET fractions == fractional_seconds_equal(self, other)
       IN  IF fractions.kind = "Panic" THEN Panic
           ELSE Returned(fractions.value)

\* IonEq for Timestamp
Timestamp_ion_eq(self, other) ==
  LET self_dt == self.date_time
      other_dt == other.date_time
      rank == PrecisionRank(self.precision)
  IN
  IF self.precision # other.precision THEN Returned(FALSE)
  ELSE IF self.offset # other.offset THEN Returned(FALSE)
  ELSE IF self_dt.year # other_dt.year THEN Returned(FALSE)
  ELSE IF rank >= PrecisionRank(Month) /\ self_dt.month # other_dt.month
  THEN Returned(FALSE)
  ELSE IF rank >= PrecisionRank(Day) /\ self_dt.day # other_dt.day
  THEN Returned(FALSE)
  ELSE IF /\ rank >= PrecisionRank(HourAndMinute)
          /\ (self_dt.hour # other_dt.hour \/ self_dt.minute # other_dt.minute)
  THEN Returned(FALSE)
  ELSE IF rank <= PrecisionRank(HourAndMinute) THEN Returned(TRUE)
  ELSE IF self_dt.second # other_dt.second THEN Returned(FALSE)
  ELSE LET fractions == fractional_seconds_equal(self, other)
       IN  IF fractions.kind = "Panic" THEN Panic
           ELSE Returned(fractions.value)

-----------------------------------------------------------------------------
(* Conversions out of a Timestamp: TryInto<NaiveDateTime> and              *)
(* TryInto<DateTime<FixedOffset>> (types/timestamp.rs)                     *)

NANOSECONDS_EXPONENT == -9

\* Timestamp::fractional_seconds_as_nanoseconds, as the set of values the call
\* can return.  A Digits mantissa returns the stored nanoseconds.  An Arbitrary
\* mantissa (with a magnitude held in a u64) is scaled in f64 arithmetic: the
\* product is exact when the scale is a whole power of ten, and otherwise the
\* truncated product is the exact quotient or one of its neighbours
fractional_seconds_as_nanoseconds(ts) ==
  IF ts.fractional_seconds = None THEN {None}
  ELSE
  LET m == Unwrap(ts.fractional_seconds) IN
  IF m.kind = "Digits" THEN {Some(ts.date_time.nanosecond)}
  ELSE
  LET exponent_delta == m.decimal.exponent - NANOSECONDS_EXPONENT
      magnitude == MagValue(m.decimal.coefficient.magnitude)
  IN  IF magnitude = 0 THEN {Some(0)}
      ELSE IF exponent_delta >= 0 THEN {Some(magnitude * Pow(10, exponent_delta))}
      ELSE LET q == magnitude \div Pow(10, -exponent_delta)
           IN  {Some(n) : n \in {q - 1, q, q + 1} \cap Nat}

\* downconvert_to_naive_datetime_with_nanoseconds, as the set of outcomes
downconvert_to_naive_datetime_with_nanoseconds(timestamp) ==
  IF timestamp.precision = Second
  THEN {LET nanoseconds == IF IsSome(n) THEN Unwrap(n) ELSE 0
            set == dt_with_nanosecond(timestamp.date_time, U32(nanoseconds))
        IN  IF IsSome(set) THEN OkDateTime(Unwrap(set)) ELSE Panic
        : n \in fractional_seconds_as_nanoseconds(timestamp)}
  ELSE {OkDateTime(timestamp.date_time)}

\* a conversion that fails when the offset is unknown instead of known
try_into_naive_date_time_offset_none(timestamp) ==
  IF timestamp.offset = None THEN {IllegalOperation}
  ELSE downconvert_to_naive_datetime_with_nanoseconds(timestamp)

\* TryInto<NaiveDateTime> for Timestamp
try_into_naive_date_time(timestamp) ==
  IF IsSome(timestamp.offset) THEN {IllegalOperation}
  ELSE downconvert_to_naive_datetime_with_nanoseconds(timestamp)

\* TryInto<DateTime<FixedOffset>> for Timestamp
try_into_date_time_fixed_offset(timestamp) ==
  IF timestamp.offset = None THEN {IllegalOperation}
  ELSE {IF date_time.kind = "Ok"
        THEN OkDateTime(from_utc_datetime(Unwrap(timestamp.offset), date_time.datetime))
        ELSE date_time
        : date_time \in downconvert_to_naive_datetime_with_nanoseconds(timestamp)}

-----------------------------------------------------------------------------
(* Text rendering of a Timestamp (text/text_formatter.rs,                  *)
(* Timestamp::format_fractional_seconds)                                   *)

DigitText == <<"0", "1", "2", "3", "4", "5", "6", "7", "8", "9">>

\* "{}" of a non-negative number
RECURSIVE Display(_)
Display(n) ==
  IF n < 10 THEN DigitText[n + 1] ELSE Display(n \div 10) \o DigitText[(n % 10) + 1]

\* "{:0>width}": zero-padded on the left up to the width, never truncated
RECURSIVE PadZeros(_, _)
PadZeros(s, width) == IF Len(s) >= width THEN s ELSE PadZeros("0" \o s, width)

\* the loop `for _ in 0..k { write!(output, "0") }`
RECURSIVE Zeros(_)
Zeros(k) == IF k = 0 THEN "" ELSE "0" \o Zeros(k - 1)

\* the formatter returned Ok(()), having written the text
OkText(s) == [kind |-> "Ok", text |-> s]

\* an unsigned subtraction wrapped around and the loop over its result writes
\* zeros without end
NeverReturns == [kind |-> "NeverReturns"]

\* a - b of unsigned integers, where a < b is possible
Underflowed == IF profile = "debug" THEN Panic ELSE NeverReturns

\* Timestamp::format_fractional_seconds.  With more than nine digits,
\* 9 - num_digits underflows: a panic where overflow is checked; elsewhere the
\* power of ten wraps to 0 and the division panics (digit counts within 22 of
\* u32::MAX, for which the wrapped power is not 0, are not among the callers'
\* arguments)
format_fractional_seconds(ts) ==
  IF ts.fractional_seconds = None THEN OkText("")
  ELSE
  LET mantissa == Unwrap(ts.fractional_seconds) IN
  IF Mantissa_is_empty(mantissa) THEN OkText("")
  ELSE IF mantissa.kind = "Digits"
  THEN IF U32Gt(mantissa.digits, MAX_NANOSECOND_DIGITS) THEN Panic
       ELSE
       LET num_digits == U32Val(mantissa.digits)
           scaled == ts.date_time.nanosecond
                       \div Pow(10, MAX_NANOSECOND_DIGITS - num_digits)
           actual_num_digits == num_decimal_digits(scaled)
       IN  IF actual_num_digits > num_digits THEN Underflowed
           ELSE OkText("." \o Zeros(num_digits - actual_num_digits) \o Display(scaled))
  ELSE
  LET decimal == mantissa.decimal
      coefficient == decimal.coefficient
  IN  IF decimal.exponent >= 0 THEN Panic
      ELSE
      LET num_digits == num_decimal_digits(MagValue(coefficient.magnitude))
          abs_exponent == -decimal.exponent
      IN  IF num_digits > abs_exponent THEN Underflowed
          ELSE IF is_negative_zero(coefficient)
          THEN OkText("." \o Zeros(abs_exponent - num_digits) \o "0")
          ELSE IF coefficient.sign = Negative THEN Panic
          ELSE OkText("." \o Zeros(abs_exponent - num_digits)
                          \o Display(MagValue(coefficient.magnitude)))

MINUTES_PER_HOUR == 60

\* a format_offset that takes a zero offset for a negative one
format_offset_zero_is_negative(offset_minutes) ==
  IF offset_minutes = None THEN "-00:00"
  ELSE
  LET sign == IF Unwrap(offset_minutes) > 0 THEN "+" ELSE "-"
      magnitude == Abs(Unwrap(offset_minutes))
      hours == magnitude \div MINUTES_PER_HOUR
      minutes == magnitude % MINUTES_PER_HOUR
  IN  sign \o PadZeros(Display(hours), 2) \o ":" \o PadZeros(Display(minutes), 2)

\* IonValueFormatter::format_offset
format_offset(offset_minutes) ==
  IF offset_minutes = None THEN "-00:00"
  ELSE
  LET sign == IF Unwrap(offset_minutes) >= 0 THEN "+" ELSE "-"
      magnitude == Abs(Unwrap(offset_minutes))
      hours == magnitude \div MINUTES_PER_HOUR
      minutes == magnitude % MINUTES_PER_HOUR
  IN  sign \o PadZeros(Display(hours), 2) \o ":" \o PadZeros(Display(minutes), 2)

\* i32 division truncates towards zero
TruncDiv(a, b) == IF a >= 0 THEN a \div b ELSE -((-a) \div b)

\* the rest of format_timestamp, once the Timestamp has been converted into
\* a date-time: the fields are those of the date-time in its own offset
format_converted(value, conversion) ==
  IF conversion.kind # "Ok" THEN conversion
  ELSE
  LET offset_minutes ==
        IF IsSome(value.offset)
        THEN Some(TruncDiv(Unwrap(value.offset), 60)) ELSE None
      datetime ==
        IF IsSome(value.offset)
        THEN AddSeconds(conversion.datetime.utc, conversion.datetime.offset)
        ELSE conversion.datetime
      year == PadZeros(Display(datetime.year), 4)
      month == year \o "-" \o PadZeros(Display(datetime.month), 2)
      day == month \o "-" \o PadZeros(Display(datetime.day), 2)
      minute == day \o "T" \o PadZeros(Display(datetime.hour), 2)
                    \o ":" \o PadZeros(Display(datetime.minute), 2)
      second == minute \o ":" \o PadZeros(Display(datetime.second), 2)
      fraction == format_fractional_seconds(value)
  IN  IF value.precision = Year THEN OkText(year \o "T")
      ELSE IF value.precision = Month THEN OkText(month \o "T")
      ELSE IF value.precision = Day THEN OkText(day \o "T")
      ELSE IF value.precision = HourAndMinute
      THEN OkText(minute \o format_offset(offset_minutes))
      ELSE IF fraction.kind # "Ok" THEN fraction
      ELSE OkText(second \o fraction.text \o format_offset(offset_minutes))

\* IonValueFormatter::format_timestamp into a String, as the set of outcomes
format_timestamp(value) ==
  {format_converted(value, conversion) :
     conversion \in IF IsSome(value.offset)
                    THEN try_into_date_time_fixed_offset(value)
                    ELSE try_into_naive_date_time(value)}

-----------------------------------------------------------------------------
(* TimestampBuilder                                                        *)

\* #[derive(Default)]
TimestampBuilder_default ==
  [fields_are_utc |-> FALSE, precision |-> Year, offset |-> None, year |-> 0,
   month |-> None, day |-> None, hour |-> None, minute |-> None, second |-> None,
   fractional_seconds |-> None, nanoseconds |-> None]

configure_datetime(b, datetime) ==
  IF b.year = 0 \/ b.year > 9999 THEN IllegalOperation
  ELSE
  LET dy == dt_with_year(datetime, b.year) IN
  IF dy = None THEN IllegalOperation
  ELSE IF b.precision = Year THEN OkDateTime(Unwrap(dy))
  ELSE IF b.month = None THEN Panic
  ELSE
  LET dm == dt_with_month(Unwrap(dy), Unwrap(b.month)) IN
  IF dm = None THEN IllegalOperation
  ELSE IF b.precision = Month THEN OkDateTime(Unwrap(dm))
  ELSE IF b.day = None THEN Panic
  ELSE
  LET dd == dt_with_day(Unwrap(dm), Unwrap(b.day)) IN
  IF dd = None THEN IllegalOperation
  ELSE IF b.precision = Day THEN OkDateTime(Unwrap(dd))
  ELSE IF b.hour = None THEN Panic
  ELSE
  LET dh == dt_with_hour(Unwrap(dd), Unwrap(b.hour)) IN
  IF dh = None THEN IllegalOperation
  ELSE IF b.minute = None THEN Panic
  ELSE
  LET dmi == dt_with_minute(Unwrap(dh), Unwrap(b.minute)) IN
  IF dmi = None THEN IllegalOperation
  ELSE IF b.precision = HourAndMinute THEN OkDateTime(Unwrap(dmi))
  ELSE IF b.second = None THEN Panic
  ELSE
  LET ds == dt_with_second(Unwrap(dmi), Unwrap(b.second)) IN
  IF ds = None THEN IllegalOperation
  ELSE
  LET dn == dt_with_nanosecond(Unwrap(ds),
                               IF IsSome(b.nanoseconds) THEN Unwrap(b.nanoseconds)
                               ELSE U32(0)) IN
  IF dn = None THEN IllegalOperation ELSE OkDateTime(Unwrap(dn))

SECONDS_PER_MINUTE == 60

\* apply_offset that takes the fields as UTC whatever the caller said
apply_offset_as_utc(offset_minutes, fields_are_utc, datetime) ==
  LET offset_seconds == I32Mul(offset_minutes, SECONDS_PER_MINUTE) IN
  IF Overflowed(offset_seconds) THEN Panic
  ELSE
  LET offset == FixedOffset_east_opt(offset_seconds.value) IN
  IF offset = None THEN IllegalOperation
  ELSE OkDateTime(from_utc_datetime(Unwrap(offset), datetime))

apply_offset(offset_minutes, fields_are_utc, datetime) ==
  LET offset_seconds == I32Mul(offset_minutes, SECONDS_PER_MINUTE) IN
  IF Overflowed(offset_seconds) THEN Panic
  ELSE
  LET offset == FixedOffset_east_opt(offset_seconds.value) IN
  IF offset = None THEN IllegalOperation
  ELSE IF fields_are_utc THEN OkDateTime(from_utc_datetime(Unwrap(offset), datetime))
  ELSE
  LET local == from_local_datetime(Unwrap(offset), datetime) IN
  IF local.kind = "Single" THEN OkDateTime(local.datetime) ELSE IllegalOperation

\* build without the check that fractional seconds are below one
build_without_upper_check(b) ==
  LET configured == configure_datetime(b, ZeroDateTime) IN
  IF configured.kind # "Ok" THEN configured
  ELSE
  LET with_offset == IF IsSome(b.offset)
                     THEN apply_offset(Unwrap(b.offset), b.fields_are_utc,
                                       configured.datetime)
                     ELSE configured
  IN
  IF with_offset.kind # "Ok" THEN with_offset
  ELSE
  LET timestamp == IF IsSome(b.offset)
                   THEN from_datetime(Timestamp_from_fixed(with_offset.datetime),
                                      b.precision)
                   ELSE from_datetime(Timestamp_from_naive(configured.datetime),
                                      b.precision)
  IN
  IF b.precision # Second THEN OkTimestamp(timestamp)
  ELSE IF /\ IsSome(b.fractional_seconds)
          /\ Unwrap(b.fractional_seconds).kind = "Arbitrary"
          /\ is_less_than_zero(Unwrap(b.fractional_seconds).decimal)
  THEN IllegalOperation
  ELSE OkTimestamp([timestamp EXCEPT !.fractional_seconds = b.fractional_seconds])

build(b) ==
  LET configured == configure_datetime(b, ZeroDateTime) IN
  IF configured.kind # "Ok" THEN configured
  ELSE
  LET with_offset == IF IsSome(b.offset)
                     THEN apply_offset(Unwrap(b.offset), b.fields_are_utc,
                                       configured.datetime)
                     ELSE configured
  IN
  IF with_offset.kind # "Ok" THEN with_offset
  ELSE
  LET timestamp == IF IsSome(b.offset)
                   THEN from_datetime(Timestamp_from_fixed(with_offset.datetime),
                                      b.precision)
                   ELSE from_datetime(Timestamp_from_naive(configured.datetime),
                                      b.precision)
  IN
  IF b.precision # Second THEN OkTimestamp(timestamp)
  ELSE IF /\ IsSome(b.fractional_seconds)
          /\ Unwrap(b.fractional_seconds).kind = "Arbitrary"
          /\ is_less_than_zero(Unwrap(b.fractional_seconds).decimal)
  THEN IllegalOperation
  ELSE IF /\ IsSome(b.fractional_seconds)
          /\ Unwrap(b.fractional_seconds).kind = "Arbitrary"
          /\ is_greater_than_or_equal_to_one(Unwrap(b.fractional_seconds).decimal)
  THEN IllegalOperation
  ELSE OkTimestamp([timestamp EXCEPT !.fractional_seconds = b.fractional_seconds])

-----------------------------------------------------------------------------
(* The setter chain: MonthSetter, DaySetter, HourAndMinuteSetter,          *)
(* SecondSetter, FractionalSecondSetter                                    *)

Timestamp_with_year(year) == [TimestampBuilder_default EXCEPT !.year = as_u16(year)]

MonthSetter_with_month(b, month) ==
  [b EXCEPT !.precision = Month, !.month = Some(as_u8(month))]

DaySetter_with_day(b, day) ==
  [b EXCEPT !.precision = Day, !.day = Some(as_u8(day))]

\* with_hms that leaves the second unset
HourAndMinuteSetter_with_hms_no_second(b, hour, minute, second) ==
  [b EXCEPT !.hour = Some(as_u8(hour)), !.minute = Some(as_u8(minute)),
            !.precision = Second]

HourAndMinuteSetter_with_hms(b, hour, minute, second) ==
  [b EXCEPT !.hour = Some(as_u8(hour)), !.minute = Some(as_u8(minute)),
            !.second = Some(as_u8(second)), !.precision = Second]

HourAndMinuteSetter_with_hour_and_minute(b, hour, minute) ==
  [b EXCEPT !.precision = HourAndMinute, !.hour = Some(as_u8(hour)),
            !.minute = Some(as_u8(minute))]

SecondSetter_with_second(b, second) ==
  [b EXCEPT !.precision = Second, !.second = Some(as_u8(second))]

with_nanoseconds(b, nanosecond) ==
  [b EXCEPT !.fractional_seconds = Some(Digits(U32(9))),
            !.nanoseconds = Some(nanosecond)]

\* microsecond * 1000
MicrosToNanos(microsecond) == U32Mul(microsecond, 1000)

with_microseconds(b, microsecond) ==
  [b EXCEPT !.fractional_seconds = Some(Digits(U32(6))),
            !.nanoseconds = Some(MicrosToNanos(microsecond).value)]

\* millisecond * 1_000_000
MillisToNanos(millisecond) ==
  LET a == U32Mul(millisecond, 1000)
      c == U32Mul(a.value, 1000)
  IN  [value |-> c.value, overflow |-> a.overflow \/ c.overflow]

with_milliseconds(b, millisecond) ==
  [b EXCEPT !.fractional_seconds = Some(Digits(U32(3))),
            !.nanoseconds = Some(MillisToNanos(millisecond).value)]

with_nanoseconds_and_precision(b, nanoseconds, precision_digits) ==
  [b EXCEPT !.fractional_seconds = Some(Digits(precision_digits)),
            !.nanoseconds = Some(nanoseconds)]

\* a with_fractional_seconds that leaves the cached nanoseconds in place
with_fractional_seconds_keeps_nanoseconds(b, fractional_seconds) ==
  [b EXCEPT !.fractional_seconds = Some(Arbitrary(fractional_seconds))]

with_fractional_seconds(b, fractional_seconds) ==
  [b EXCEPT !.fractional_seconds = Some(Arbitrary(fractional_seconds)),
            !.nanoseconds = None]

build_at_offset(b, offset_minutes) == build([b EXCEPT !.offset = Some(offset_minutes)])

build_utc_fields_at_offset(b, offset_minutes) ==
  build_at_offset([b EXCEPT !.fields_are_utc = TRUE], offset_minutes)

build_at_unknown_offset(b) == build([b EXCEPT !.offset = None])

\* the shortcuts are the chain they abbreviate
Timestamp_with_ymd(year, month, day) ==
  DaySetter_with_day(MonthSetter_with_month(Timestamp_with_year(year), month), day)

\* a with_ymd_hms that sets the time on a year-and-month builder
Timestamp_with_ymd_hms_no_day(year, month, day, hour, minute, second) ==
  HourAndMinuteSetter_with_hms(
    MonthSetter_with_month(Timestamp_with_year(year), month), hour, minute, second)

Timestamp_with_ymd_hms(year, month, day, hour, minute, second) ==
  HourAndMinuteSetter_with_hms(Timestamp_with_ymd(year, month, day),
                               hour, minute, second)

Timestamp_with_ymd_hms_millis(year, month, day, hour, minute, second, milliseconds) ==
  with_milliseconds(Timestamp_with_ymd_hms(year, month, day, hour, minute, second),
                    milliseconds)

-----------------------------------------------------------------------------
(* The encoder's callers: a Decimal is encoded into a Vec<u8>, either as a *)
(* whole value (then read back) or as content only.                        *)

LeadBytes == {1, 42, 127, 128, 255}
FillBytes == {0, 255}
Exponents == {0, 10, -10, 100, 63, -64, 64, 8191, -8192, 1000000}
SinkPrefixes == {<<>>, <<170>>}

\* normalized magnitudes: zero, or a non-zero leading byte and a run of fill bytes
Magnitudes ==
  {<<>>} \cup
  {<<l>> \o Repeat(f, n - 1) : l \in LeadBytes, f \in FillBytes, n \in 1..MaxMagBytes}

Decimals ==
  {Decimal(sg, m, e) : sg \in {Positive, Negative}, m \in Magnitudes, e \in Exponents}

CmpIdle ==
  /\ left = Pending
  /\ right = Pending
  /\ third = Pending
  /\ eq_result = Pending
  /\ ion_eq_result = Pending

UseIdle ==
  /\ into = Pending
  /\ text = Pending

TsIdle ==
  /\ CmpIdle
  /\ UseIdle
  /\ profile = "release"
  /\ stage = "idle"
  /\ builder = Pending
  /\ args = Pending
  /\ result = Pending

InitDecimal ==
  /\ pc = "start"
  /\ dec \in Decimals
  /\ sinkBefore \in SinkPrefixes
  /\ sink = sinkBefore
  /\ ret = Pending
  /\ decoded = None
  /\ TsIdle

EncodeDecimalValue ==
  /\ pc = "start"
  /\ LET r == encode_decimal_value(VecSink(sink), dec)
     IN  /\ sink' = r.sink.bytes
         /\ ret' = [ok |-> r.ok, n |-> r.n]
  /\ pc' = "value"
  /\ UNCHANGED <<dec, sinkBefore, decoded>>
  /\ UNCHANGED tsVars
  /\ UNCHANGED cmpVars
  /\ UNCHANGED useVars

EncodeDecimal ==
  /\ pc = "start"
  /\ LET r == encode_decimal(VecSink(sink), dec)
     IN  /\ sink' = r.sink.bytes
         /\ ret' = [ok |-> r.ok, n |-> r.n]
  /\ pc' = "content"
  /\ UNCHANGED <<dec, sinkBefore, decoded>>
  /\ UNCHANGED tsVars
  /\ UNCHANGED cmpVars
  /\ UNCHANGED useVars

\* the external reader decodes what encode_decimal_value appended
ReadDecimalValue ==
  /\ pc = "value"
  /\ ret.ok
  /\ decoded' = read_decimal_value(Tail_n(sink, Len(sinkBefore)))
  /\ pc' = "read"
  /\ UNCHANGED <<dec, sink, sinkBefore, ret>>
  /\ UNCHANGED tsVars
  /\ UNCHANGED cmpVars
  /\ UNCHANGED useVars

NextDecimal == EncodeDecimalValue \/ EncodeDecimal \/ ReadDecimalValue

SpecDecimal == InitDecimal /\ [][NextDecimal]_vars

\* what the call appended to the sink
Appended == Tail_n(sink, Len(sinkBefore))

-----------------------------------------------------------------------------
(* The builder's callers: every setter chain the types allow, with         *)
(* arguments drawn from small sets, then one finalization.                 *)

YearArgs == {U32(0), U32(2021), U32(2024), U32(10000), U32(67557)}
MonthArgs == {U32(2), U32(13), U32(258)}
Month0Args == {U32(1), U32_MAX}
DayArgs == {U32(5), U32(29), U32(30), U32(261)}
Day0Args == {U32(4), U32_MAX}
HourArgs == {U32(16), U32(24), U32(272)}
MinuteArgs == {U32(43), U32(299)}
SecondArgs == {U32(51), U32(60)}
NanosecondArgs == {U32(0), U32(192000000), U32(1000000000), U32(2000000000)}
MicrosecondArgs == {U32(192000), U32(1000000), U32(4294968)}
MillisecondArgs == {U32(192), U32(1000), U32(4295)}
PrecisionDigitArgs == {U32(0), U32(3), U32(10)}
FractionArgs ==
  {Decimal(Positive, MagOf(192), -3), Decimal(Positive, MagOf(192), -5),
   Decimal(Positive, <<>>, 0), Decimal(Negative, <<>>, 0),
   Decimal(Positive, <<>>, 5), Decimal(Negative, <<>>, -3),
   Decimal(Positive, MagOf(1), 0), Decimal(Positive, MagOf(15), -1),
   Decimal(Positive, MagOf(1000), -3), Decimal(Negative, MagOf(5), -1),
   Decimal(Positive, MagOf(1234567891), -10)}
OffsetArgs == {0, 300, -300, 1440, 71582788}

NoArgs ==
  [year |-> None, month |-> None, day |-> None, hour |-> None, minute |-> None,
   second |-> None, fraction |-> None, earlier |-> None]

\* the kind of mantissa an earlier fractional-seconds setter left in the
\* builder, which the next setter overwrites
Overwrites ==
  IF IsSome(builder.fractional_seconds)
  THEN Some(Unwrap(builder.fractional_seconds).kind) ELSE None

DecIdle ==
  /\ pc = "idle"
  /\ dec = DECIMAL_POSITIVE_ZERO
  /\ sink = <<>>
  /\ sinkBefore = <<>>
  /\ ret = Pending
  /\ decoded = None

InitTimestamp ==
  /\ profile \in {"debug", "release"}
  /\ stage = "Start"
  /\ builder = TimestampBuilder_default
  /\ args = NoArgs
  /\ result = Pending
  /\ DecIdle
  /\ CmpIdle
  /\ UseIdle

\* a setter returned the next setter type
Advance(next, b, a) ==
  /\ stage' = next
  /\ builder' = b
  /\ args' = a
  /\ UNCHANGED <<profile, result>>
  /\ UNCHANGED decVars
  /\ UNCHANGED cmpVars
  /\ UNCHANGED useVars

\* a setter or the finalization panicked
Panicked ==
  /\ stage' = "Panicked"
  /\ result' = Panic
  /\ UNCHANGED <<profile, builder, args>>
  /\ UNCHANGED decVars
  /\ UNCHANGED cmpVars
  /\ UNCHANGED useVars

\* a finalization returned
Finalize(b, r) ==
  /\ stage' = IF r.kind = "Panic" THEN "Panicked" ELSE "Built"
  /\ builder' = b
  /\ result' = r
  /\ UNCHANGED <<profile, args>>
  /\ UNCHANGED decVars
  /\ UNCHANGED cmpVars
  /\ UNCHANGED useVars

WithYear ==
  /\ stage = "Start"
  /\ \E year \in YearArgs :
       Advance("MonthSetter", Timestamp_with_year(year),
               [args EXCEPT !.year = Some(year)])

WithMonth ==
  /\ stage = "MonthSetter"
  /\ \E month \in MonthArgs :
       Advance("DaySetter", MonthSetter_with_month(builder, month),
               [args EXCEPT !.month = Some(month)])

\* with_month0(m) is with_month(m + 1)
WithMonth0 ==
  /\ stage = "MonthSetter"
  /\ \E month0 \in Month0Args :
       LET month == U32Add1(month0)
       IN  IF Overflowed(month) THEN Panicked
           ELSE Advance("DaySetter", MonthSetter_with_month(builder, month.value),
                        [args EXCEPT !.month = Some(month.value)])

WithDay ==
  /\ stage = "DaySetter"
  /\ \E day \in DayArgs :
       Advance("HourAndMinuteSetter", DaySetter_with_day(builder, day),
               [args EXCEPT !.day = Some(day)])

\* with_day0(d) is with_day(d + 1)
WithDay0 ==
  /\ stage = "DaySetter"
  /\ \E day0 \in Day0Args :
       LET day == U32Add1(day0)
       IN  IF Overflowed(day) THEN Panicked
           ELSE Advance("HourAndMinuteSetter", DaySetter_with_day(builder, day.value),
                        [args EXCEPT !.day = Some(day.value)])

WithHms ==
  /\ stage = "HourAndMinuteSetter"
  /\ \E hour \in HourArgs, minute \in MinuteArgs, second \in SecondArgs :
       Advance("FractionalSecondSetter",
               HourAndMinuteSetter_with_hms(builder, hour, minute, second),
               [args EXCEPT !.hour = Some(hour), !.minute = Some(minute),
                            !.second = Some(second)])

WithHourAndMinute ==
  /\ stage = "HourAndMinuteSetter"
  /\ \E hour \in HourArgs, minute \in MinuteArgs :
       Advance("SecondSetter",
               HourAndMinuteSetter_with_hour_and_minute(builder, hour, minute),
               [args EXCEPT !.hour = Some(hour), !.minute = Some(minute)])

WithSecond ==
  /\ stage = "SecondSetter"
  /\ \E second \in SecondArgs :
       Advance("FractionalSecondSetter", SecondSetter_with_second(builder, second),
               [args EXCEPT !.second = Some(second)])

WithNanoseconds ==
  /\ stage = "FractionalSecondSetter"
  /\ \E nanosecond \in NanosecondArgs :
       Advance("FractionalSecondSetter", with_nanoseconds(builder, nanosecond),
               [args EXCEPT !.earlier = Overwrites, !.fraction =
                  Some([setter |-> "with_nanoseconds", value |-> nanosecond])])

WithMicroseconds ==
  /\ stage = "FractionalSecondSetter"
  /\ \E microsecond \in MicrosecondArgs :
       IF Overflowed(MicrosToNanos(microsecond)) THEN Panicked
       ELSE Advance("FractionalSecondSetter", with_microseconds(builder, microsecond),
                    [args EXCEPT !.earlier = Overwrites, !.fraction =
                       Some([setter |-> "with_microseconds", value |-> microsecond])])

WithMilliseconds ==
  /\ stage = "FractionalSecondSetter"
  /\ \E millisecond \in MillisecondArgs :
       IF Overflowed(MillisToNanos(millisecond)) THEN Panicked
       ELSE Advance("FractionalSecondSetter", with_milliseconds(builder, millisecond),
                    [args EXCEPT !.earlier = Overwrites, !.fraction =
                       Some([setter |-> "with_milliseconds", value |-> millisecond])])

WithNanosecondsAndPrecision ==
  /\ stage = "FractionalSecondSetter"
  /\ \E nanoseconds \in NanosecondArgs, precision_digits \in PrecisionDigitArgs :
       Advance("FractionalSecondSetter",
               with_nanoseconds_and_precision(builder, nanoseconds, precision_digits),
               [args EXCEPT !.earlier = Overwrites, !.fraction =
                  Some([setter |-> "with_nanoseconds_and_precision",
                        value |-> nanoseconds, digits |-> precision_digits])])

WithFractionalSeconds ==
  /\ stage = "FractionalSecondSetter"
  /\ \E fractional_seconds \in FractionArgs :
       Advance("FractionalSecondSetter",
               with_fractional_seconds(builder, fractional_seconds),
               [args EXCEPT !.earlier = Overwrites, !.fraction =
                  Some([setter |-> "with_fractional_seconds",
                        decimal |-> fractional_seconds])])

\* MonthSetter::build, DaySetter::build, HourAndMinuteSetter::build
MonthSetterBuild ==
  /\ stage = "MonthSetter"
  /\ Finalize(builder, build(builder))

DaySetterBuild ==
  /\ stage = "DaySetter"
  /\ Finalize(builder, build(builder))

HourAndMinuteSetterBuild ==
  /\ stage = "HourAndMinuteSetter"
  /\ Finalize(builder, build(builder))

\* SecondSetter and FractionalSecondSetter finalize with an offset
BuildAtOffset ==
  /\ stage \in {"SecondSetter", "FractionalSecondSetter"}
  /\ \E offset_minutes \in OffsetArgs :
       Finalize([builder EXCEPT !.offset = Some(offset_minutes)],
                build_at_offset(builder, offset_minutes))

BuildUtcFieldsAtOffset ==
  /\ stage \in {"SecondSetter", "FractionalSecondSetter"}
  /\ \E offset_minutes \in OffsetArgs :
       Finalize([builder EXCEPT !.fields_are_utc = TRUE, !.offset = Some(offset_minutes)],
                build_utc_fields_at_offset(builder, offset_minutes))

BuildAtUnknownOffset ==
  /\ stage \in {"SecondSetter", "FractionalSecondSetter"}
  /\ Finalize([builder EXCEPT !.offset = None], build_at_unknown_offset(builder))

WithYmd ==
  /\ stage = "Start"
  /\ \E year \in YearArgs, month \in MonthArgs, day \in DayArgs :
       Advance("HourAndMinuteSetter", Timestamp_with_ymd(year, month, day),
               [args EXCEPT !.year = Some(year), !.month = Some(month),
                            !.day = Some(day)])

WithYmdHms ==
  /\ stage = "Start"
  /\ \E year \in YearArgs, month \in MonthArgs, day \in DayArgs,
        hour \in HourArgs, minute \in MinuteArgs, second \in SecondArgs :
       Advance("FractionalSecondSetter",
               Timestamp_with_ymd_hms(year, month, day, hour, minute, second),
               [args EXCEPT !.year = Some(year), !.month = Some(month),
                            !.day = Some(day), !.hour = Some(hour),
                            !.minute = Some(minute), !.second = Some(second)])

WithYmdHmsMillis ==
  /\ stage = "Start"
  /\ \E year \in YearArgs, month \in MonthArgs, day \in DayArgs,
        hour \in HourArgs, minute \in MinuteArgs, second \in SecondArgs,
        milliseconds \in MillisecondArgs :
       IF Overflowed(MillisToNanos(milliseconds)) THEN Panicked
       ELSE Advance("FractionalSecondSetter",
                    Timestamp_with_ymd_hms_millis(year, month, day, hour, minute,
                                                  second, milliseconds),
                    [args EXCEPT !.year = Some(year), !.month = Some(month),
                                 !.day = Some(day), !.hour = Some(hour),
                                 !.minute = Some(minute), !.second = Some(second),
                                 !.fraction = Some([setter |-> "with_milliseconds",
                                                    value |-> milliseconds])])

\* external date-times handed to Timestamp::from_datetime
DateTimeArgs ==
  {[year |-> 2021, month |-> 2, day |-> 5, hour |-> 16, minute |-> 43,
    second |-> 51, nanosecond |-> 192000000],
   [year |-> 2021, month |-> 1, day |-> 1, hour |-> 0, minute |-> 0,
    second |-> 0, nanosecond |-> 0]}
ZoneArgs == {None, Some(0), Some(18000)}
PrecisionArgs == {Year, Month, Day, HourAndMinute, Second}

\* Timestamp::from_datetime on a NaiveDateTime or a DateTime<FixedOffset>
FromDatetime ==
  /\ stage = "Start"
  /\ \E datetime \in DateTimeArgs, zone \in ZoneArgs, precision \in PrecisionArgs :
       LET converted == IF IsSome(zone)
                        THEN Timestamp_from_fixed(from_utc_datetime(Unwrap(zone), datetime))
                        ELSE Timestamp_from_naive(datetime)
       IN  /\ result' = OkTimestamp(from_datetime(converted, precision))
           /\ stage' = "Converted"
  /\ UNCHANGED <<profile, builder, args>>
  /\ UNCHANGED decVars
  /\ UNCHANGED cmpVars
  /\ UNCHANGED useVars

\* the built Timestamp is converted: timestamp.try_into()
TryIntoNaiveDateTime ==
  /\ stage \in {"Built", "Converted"}
  /\ result.kind = "Ok"
  /\ into' \in try_into_naive_date_time(result.timestamp)
  /\ stage' = "IntoNaiveDateTime"
  /\ UNCHANGED <<profile, builder, args, result, text>>
  /\ UNCHANGED decVars
  /\ UNCHANGED cmpVars

TryIntoDateTimeFixedOffset ==
  /\ stage \in {"Built", "Converted"}
  /\ result.kind = "Ok"
  /\ into' \in try_into_date_time_fixed_offset(result.timestamp)
  /\ stage' = "IntoDateTimeFixedOffset"
  /\ UNCHANGED <<profile, builder, args, result, text>>
  /\ UNCHANGED decVars
  /\ UNCHANGED cmpVars

\* the built Timestamp is rendered: ivf.format_timestamp(&timestamp)
FormatTimestamp ==
  /\ stage \in {"Built", "Converted"}
  /\ result.kind = "Ok"
  /\ text' \in format_timestamp(result.timestamp)
  /\ stage' = "Formatted"
  /\ UNCHANGED <<profile, builder, args, result, into>>
  /\ UNCHANGED decVars
  /\ UNCHANGED cmpVars

NextTimestamp ==
  \/ WithYmd \/ WithYmdHms \/ WithYmdHmsMillis \/ FromDatetime
  \/ WithYear \/ WithMonth \/ WithMonth0 \/ WithDay \/ WithDay0
  \/ WithHms \/ WithHourAndMinute \/ WithSecond
  \/ WithNanoseconds \/ WithMicroseconds \/ WithMilliseconds
  \/ WithNanosecondsAndPrecision \/ WithFractionalSeconds
  \/ MonthSetterBuild \/ DaySetterBuild \/ HourAndMinuteSetterBuild
  \/ BuildAtOffset \/ BuildUtcFieldsAtOffset \/ BuildAtUnknownOffset
  \/ TryIntoNaiveDateTime \/ TryIntoDateTimeFixedOffset \/ FormatTimestamp

SpecTimestamp == InitTimestamp /\ [][NextTimestamp]_vars

-----------------------------------------------------------------------------
(* The callers of == and ion_eq: two Timestamps are built, each by a chain *)
(* of setters and a finalization, and compared with both relations.        *)

\* the calls that build one Timestamp: the fields, how far the chain goes
\* (level), the fractional-seconds setter and the finalization
Call(y, mo, d, h, mi, s, level, fraction, finish) ==
  [year |-> y, month |-> mo, day |-> d, hour |-> h, minute |-> mi, second |-> s,
   level |-> level, fraction |-> fraction, finish |-> finish]

Unknown == [kind |-> "unknown"]
Local(o) == [kind |-> "local", offset |-> o]
Utc(o) == [kind |-> "utc", offset |-> o]

Millis(v) == Some([setter |-> "with_milliseconds", value |-> U32(v)])
Micros(v) == Some([setter |-> "with_microseconds", value |-> U32(v)])
Nanos(v) == Some([setter |-> "with_nanoseconds", value |-> U32(v)])
NanosAndPrecision(v, n) ==
  Some([setter |-> "with_nanoseconds_and_precision", value |-> U32(v),
        digits |-> U32(n)])
Fraction(d) == Some([setter |-> "with_fractional_seconds", decimal |-> d])

\* the FractionalSecondSetter call of a chain, if it has one
ApplyFraction(b, fraction) ==
  IF fraction = None THEN b
  ELSE LET f == Unwrap(fraction) IN
       CASE f.setter = "with_milliseconds" -> with_milliseconds(b, f.value)
         [] f.setter = "with_microseconds" -> with_microseconds(b, f.value)
         [] f.setter = "with_nanoseconds" -> with_nanoseconds(b, f.value)
         [] f.setter = "with_nanoseconds_and_precision" ->
              with_nanoseconds_and_precision(b, f.value, f.digits)
         [] f.setter = "with_fractional_seconds" ->
              with_fractional_seconds(b, f.decimal)

ApplyFinish(b, finish) ==
  CASE finish.kind = "unknown" -> build_at_unknown_offset(b)
    [] finish.kind = "local" -> build_at_offset(b, finish.offset)
    [] finish.kind = "utc" -> build_utc_fields_at_offset(b, finish.offset)

\* the chain of calls, run
BuildCall(c) ==
  LET y == U32(c.year)
      mo == U32(c.month)
      d == U32(c.day)
  IN
  CASE c.level = Year -> build(Timestamp_with_year(y))
    [] c.level = Month -> build(MonthSetter_with_month(Timestamp_with_year(y), mo))
    [] c.level = Day -> build(Timestamp_with_ymd(y, mo, d))
    [] c.level = HourAndMinute ->
         ApplyFinish(HourAndMinuteSetter_with_hour_and_minute(
                       Timestamp_with_ymd(y, mo, d), U32(c.hour), U32(c.minute)),
                     c.finish)
    [] c.level = Second ->
         ApplyFinish(ApplyFraction(
                       Timestamp_with_ymd_hms(y, mo, d, U32(c.hour), U32(c.minute),
                                              U32(c.second)),
                       c.fraction),
                     c.finish)

CmpDays == {<<2022, 1, 1>>, <<2022, 1, 2>>}
CmpTimes == {<<0, 0>>, <<5, 0>>, <<19, 0>>}
CmpSeconds == {0, 51}
CmpOffsets == {0, 300, -300}
CmpFinishes == {Unknown} \cup {Local(o) : o \in CmpOffsets} \cup {Utc(o) : o \in CmpOffsets}

\* fractional seconds: the same values with different digit counts and in both
\* representations, values that differ only by leading or trailing zeros,
\* empty mantissas, and one whole second of milliseconds
CmpFractions ==
  {Millis(0), Millis(6), Millis(60), Millis(600), Millis(192), Millis(193),
   Millis(1000), Micros(192000), Micros(193000), Micros(0),
   Nanos(192000000), Nanos(0),
   NanosAndPrecision(0, 0), NanosAndPrecision(190000000, 2),
   NanosAndPrecision(190000000, 3), NanosAndPrecision(1000000000, 0),
   Fraction(Decimal(Positive, MagOf(192), -3)),
   Fraction(Decimal(Positive, MagOf(6), -3)),
   Fraction(Decimal(Positive, MagOf(19), -2)),
   Fraction(Decimal(Positive, MagOf(190), -3)),
   Fraction(Decimal(Positive, MagOf(192000), -6)),
   Fraction(Decimal(Positive, MagOf(192000000), -9)),
   Fraction(Decimal(Positive, <<>>, -3)), Fraction(Decimal(Negative, <<>>, -3)),
   Fraction(Decimal(Positive, <<>>, -6)), Fraction(Decimal(Positive, <<>>, 0))}

\* chains that stop before the time of day
DateCalls ==
  {Call(2022, 1, 1, 0, 0, 0, Year, None, Unknown),
   Call(2022, 1, 1, 0, 0, 0, Month, None, Unknown),
   Call(2022, 2, 1, 0, 0, 0, Month, None, Unknown)}
  \cup {Call(d[1], d[2], d[3], 0, 0, 0, Day, None, Unknown) : d \in CmpDays}

\* chains over every day, time and finalization, without fractional seconds
TimeCalls ==
  {Call(d[1], d[2], d[3], t[1], t[2], 0, HourAndMinute, None, f) :
     d \in CmpDays, t \in CmpTimes, f \in CmpFinishes}
  \cup {Call(d[1], d[2], d[3], t[1], t[2], s, Second, None, f) :
          d \in CmpDays, t \in CmpTimes, s \in CmpSeconds, f \in CmpFinishes}

\* chains with every fractional-seconds call, at one second of one day
FractionCalls ==
  {Call(2022, 1, 1, 0, 0, 0, Second, fr, f) :
     fr \in CmpFractions, f \in {Unknown, Local(0), Local(300)}}

\* chains finalized at an offset whose product with 60 does not fit in 32 bits
WrappedOffsetCalls ==
  {Call(2022, 1, 1, 0, 0, 0, HourAndMinute, None, f) :
     f \in {Local(71582788), Utc(71582788)}}

Calls == DateCalls \cup TimeCalls \cup FractionCalls \cup WrappedOffsetCalls

\* the call chains of a set that return Ok, each with the Timestamp it returned
BuiltFrom(calls) ==
  LET returned == {[call |-> c, result |-> BuildCall(c)] : c \in calls}
  IN  {[call |-> r.call, timestamp |-> r.result.timestamp] :
         r \in {x \in returned : x.result.kind = "Ok"}}

InitCompare ==
  /\ profile \in {"debug", "release"}
  /\ stage = "idle"
  /\ builder = Pending
  /\ args = Pending
  /\ result = Pending
  /\ DecIdle
  /\ \E built \in [{"left", "right"} -> BuiltFrom(Calls)] :
       /\ left = built["left"]
       /\ right = built["right"]
  /\ third = Pending
  /\ eq_result = Pending
  /\ ion_eq_result = Pending
  /\ UseIdle

\* left == right
CompareEq ==
  /\ eq_result = Pending
  /\ eq_result' = Timestamp_eq(left.timestamp, right.timestamp)
  /\ UNCHANGED <<left, right, third, ion_eq_result>>
  /\ UNCHANGED <<decVars, tsVars, useVars>>

\* left.ion_eq(&right)
CompareIonEq ==
  /\ ion_eq_result = Pending
  /\ ion_eq_result' = Timestamp_ion_eq(left.timestamp, right.timestamp)
  /\ UNCHANGED <<left, right, third, eq_result>>
  /\ UNCHANGED <<decVars, tsVars, useVars>>

NextCompare == CompareEq \/ CompareIonEq

SpecCompare == InitCompare /\ [][NextCompare]_vars

\* fractional seconds of the chained comparisons: one value in every
\* representation and digit count, its neighbours, and zero in every
\* representation and scale
ChainFractions ==
  {Millis(0), Millis(6), Millis(192), Micros(192000), Nanos(0),
   NanosAndPrecision(0, 0), NanosAndPrecision(190000000, 2),
   Fraction(Decimal(Positive, MagOf(192), -3)),
   Fraction(Decimal(Positive, MagOf(192000), -6)),
   Fraction(Decimal(Positive, MagOf(19), -2)),
   Fraction(Decimal(Positive, <<>>, -3)),
   Fraction(Decimal(Positive, <<>>, -6)), Fraction(Decimal(Positive, <<>>, 0))}

\* chains at an unknown offset and one instant: to the minute, to the second,
\* and with each of those fractional-seconds calls
ChainCalls ==
  {c \in Calls : /\ c.finish = Unknown /\ c.day = 1 /\ c.month = 1
                 /\ c.hour = 0 /\ c.second = 0
                 /\ c.level \in {HourAndMinute, Second}
                 /\ c.fraction \in ChainFractions \cup {None}}

\* the Timestamps those calls build, each with its call chain
ChainBuilt == BuiltFrom(ChainCalls)

\* three Timestamps are built; the first two are compared by the caller, the
\* third is there to be compared with either
InitChain ==
  /\ profile \in {"debug", "release"}
  /\ stage = "idle"
  /\ builder = Pending
  /\ args = Pending
  /\ result = Pending
  /\ DecIdle
  /\ \E built \in [{"left", "right", "third"} -> ChainBuilt] :
       /\ left = built["left"]
       /\ right = built["right"]
       /\ third = built["third"]
  /\ eq_result = Pending
  /\ ion_eq_result = Pending
  /\ UseIdle

SpecChain == InitChain /\ [][NextCompare]_vars

-----------------------------------------------------------------------------
(* Claims about the Decimal encoder                                        *)

IsPositiveZero(d) ==
  d.coefficient.sign = Positive /\ d.coefficient.magnitude = <<>> /\ d.exponent = 0

\* the content encode_decimal writes to a sink that never fails
ContentOf(d) == encode_decimal(VecSink(<<>>), d).sink.bytes

\* C1: for every Decimal, encode_decimal_value succeeds on a sink that never
\* fails and the external reader decodes the written bytes to a Decimal that
\* is representation-equal (ion_eq) to the one encoded.
C1_RoundTrip ==
  /\ pc = "value" => ret.ok
  /\ pc = "read" => (IsSome(decoded) /\ DecimalIonEq(Unwrap(decoded), dec))

\* C2: on a sink that never fails, encode_decimal and encode_decimal_value
\* return Ok for every Decimal.
C2_EncoderTotal == pc \in {"value", "content"} => ret.ok

\* C3: when encode_decimal_value returns Ok(n), n is the number of bytes
\* appended to the sink, and n = 1 + the length of the VarUInt length prefix
\* (0 when inline) + the content length; 0d0 gives 1, a zero coefficient with
\* a one-byte non-zero exponent gives 2, 42d0 gives 3.
C3_BytesWritten ==
  (pc = "value" /\ ret.ok) =>
    /\ SubSeq(sink, 1, Len(sinkBefore)) = sinkBefore
    /\ ret.n = Len(sink) - Len(sinkBefore)
    /\ ret.n = 1 + (IF Appended[1] % 16 = 14
                    THEN read_var_uint(Tail(Appended)).size
                           + read_var_uint(Tail(Appended)).value
                    ELSE Appended[1] % 16)
    /\ IsPositiveZero(dec) => ret.n = 1
    /\ (dec.coefficient = Coefficient(Positive, <<>>) /\ dec.exponent # 0
          /\ Abs(dec.exponent) < 64) => ret.n = 2
    /\ dec = Decimal(Positive, <<42>>, 0) => ret.n = 3

C3_Witness ==
  pc = "value" /\ ret.ok /\ Appended[1] % 16 = 14 /\ ret.n = Len(Appended) /\ ret.n > 15

\* C4: encode_decimal writes zero content bytes iff the Decimal is 0d0
\* (positive-zero coefficient, exponent 0); any other Decimal produces at
\* least the bytes of its exponent.
C4_EmptyIffZero ==
  pc = "content" =>
    /\ ret.ok
    /\ (Appended = <<>>) <=> IsPositiveZero(dec)
    /\ ~IsPositiveZero(dec) =>
         /\ Len(Appended) >= Len(VarIntBytes(dec.exponent))
         /\ SubSeq(Appended, 1, Len(VarIntBytes(dec.exponent))) = VarIntBytes(dec.exponent)

C4_Witness ==
  /\ pc = "content"
  /\ coefficient_is_zero(dec.coefficient)
  /\ dec.coefficient.sign = Positive
  /\ dec.exponent = 10
  /\ Appended = <<138>>

\* C5: the first byte encode_decimal_value writes has high nibble 5; its low
\* nibble is the content length L when L <= 13 and 14 when L > 13, in which
\* case L follows as a VarUInt; the low nibble is never 15, and exactly the L
\* content bytes follow the descriptor (and length).
C5_Descriptor ==
  (pc = "value" /\ Appended # <<>>) =>
    LET content == ContentOf(dec)
        L == Len(content)
    IN  /\ Appended[1] \div 16 = 5
        /\ Appended[1] % 16 # 15
        /\ L <= 13 => (Appended[1] % 16 = L /\ Tail(Appended) = content)
        /\ L > 13 => (Appended[1] % 16 = 14 /\ Tail(Appended) = VarUIntBytes(L) \o content)

C5_Witness ==
  pc = "value" /\ ret.ok /\ Appended[1] = 94 /\ Len(ContentOf(dec)) = 14

ZeroDecimals == {d \in Decimals : coefficient_is_zero(d.coefficient)}

CoefficientWritten == Tail_n(Appended, read_var_int(Appended).size)

\* C26: for a coefficient outside the i64 fast path, the bytes encode_decimal
\* writes after the exponent are the big-endian magnitude with the sign in the
\* leading bit: that bit is 1 iff the coefficient is negative, the other bits
\* read as the magnitude, and there is one byte more than the magnitude has
\* (0x80 if negative, 0x00 otherwise) exactly when the magnitude's own leading
\* bit is 1.
C26_SignFoldedIntoMagnitude ==
  (pc = "content" /\ ret.ok /\ ~as_i64_is_some(dec.coefficient)) =>
    LET written == CoefficientWritten
        magnitude == dec.coefficient.magnitude
        extended == magnitude[1] >= 128
    IN  /\ written # <<>>
        /\ written[1] >= 128 <=> dec.coefficient.sign = Negative
        /\ StripLeadingZeros([written EXCEPT ![1] = @ % 128]) = magnitude
        /\ Len(written) = Len(magnitude) + (IF extended THEN 1 ELSE 0)
        /\ extended =>
             written[1] = (IF dec.coefficient.sign = Negative THEN 128 ELSE 0)

\* a negative nine-byte magnitude with its leading bit set was written behind
\* a 0x80 byte
C26_Witness ==
  /\ pc = "content"
  /\ ret.ok
  /\ dec.coefficient.sign = Negative
  /\ Len(dec.coefficient.magnitude) = 9
  /\ dec.coefficient.magnitude[1] = 255
  /\ Len(CoefficientWritten) = 10
  /\ CoefficientWritten[1] = 128

\* the length the descriptor (and the VarUInt after a low nibble of 14)
\* announces in what the call appended
AnnouncedLength ==
  IF Appended[1] % 16 = 14
  THEN read_var_uint(Tail(Appended)).value
  ELSE Appended[1] % 16

\* C30: encode_decimal_value encodes the content into a scratch buffer before
\* it touches the sink: when it returns Err because the content could not be
\* encoded, the sink holds exactly what it held before the call, and whenever
\* it has written anything the announced length is the length of the complete
\* content, which follows in full.
C30_ScratchBeforeSink ==
  pc = "value" =>
    /\ ~ret.ok => sink = sinkBefore
    /\ ~ret.ok => Len(ContentOf(dec)) > DECIMAL_BUFFER_SIZE
    /\ Appended # <<>> =>
         /\ ret.ok
         /\ AnnouncedLength = Len(ContentOf(dec))
         /\ Tail_n(Appended, Len(Appended) - Len(ContentOf(dec))) = ContentOf(dec)

C30_Witness ==
  /\ pc = "value"
  /\ ~ret.ok
  /\ sinkBefore # <<>>
  /\ sink = sinkBefore
  /\ Len(ContentOf(dec)) > DECIMAL_BUFFER_SIZE

-----------------------------------------------------------------------------
(* Claims about the Timestamp builder                                      *)

Built == stage = "Built"

ArgIn(a, lo, hi) == IsSome(a) /\ U32Ge(Unwrap(a), lo) /\ ~U32Gt(Unwrap(a), hi)
ArgOutside(a, lo, hi) == IsSome(a) /\ (U32Lt(Unwrap(a), lo) \/ U32Gt(Unwrap(a), hi))

\* C7: for every 32-bit year y passed to with_year, every finalization
\* returns an error when y = 0 or y > 9999, also for y above 65535.
C7_YearOutOfRangeFails ==
  (Built /\ ArgOutside(args.year, 1, 9999)) => result.kind = "Err"

\* C8: finalization fails whenever a calendar field supplied to a setter is
\* invalid: a month outside 1..12, a day that does not exist in the month,
\* an hour > 23, a minute > 59 or a second > 59, also for arguments above 255.
C8_InvalidFieldFails ==
  (/\ Built
   /\ \/ ArgOutside(args.month, 1, 12)
      \/ ArgOutside(args.day, 1, 31)
      \/ ArgOutside(args.hour, 0, 23)
      \/ ArgOutside(args.minute, 0, 59)
      \/ ArgOutside(args.second, 0, 59))
    => result.kind = "Err"

\* the arguments of the chain are all valid calendar fields and the offset,
\* if any, is less than a day
ArgsValid ==
  /\ ArgIn(args.year, 1, 9999)
  /\ args.month = None \/ ArgIn(args.month, 1, 12)
  /\ args.day = None
       \/ ArgIn(args.day, 1, DaysInMonth(U32Val(Unwrap(args.year)),
                                         U32Val(Unwrap(args.month))))
  /\ args.hour = None \/ ArgIn(args.hour, 0, 23)
  /\ args.minute = None \/ ArgIn(args.minute, 0, 59)
  /\ args.second = None \/ ArgIn(args.second, 0, 59)
  /\ builder.offset = None \/ Abs(Unwrap(builder.offset)) < 1440

LastFractionBy(setter) ==
  IsSome(args.fraction) /\ Unwrap(args.fraction).setter = setter

\* the value of a decimal is negative / is at least one
ValueBelowZero(d) == d.coefficient.sign = Negative /\ d.coefficient.magnitude # <<>>
\* (a magnitude of the builder's callers is below 2^31 < 10^10)
ValueAtLeastOne(d) ==
  IF d.exponent >= 0 THEN MagValue(d.coefficient.magnitude) >= 1
  ELSE IF -d.exponent > 9 THEN FALSE
  ELSE MagValue(d.coefficient.magnitude) >= Pow(10, -d.exponent)

\* C9: when fractional seconds were last supplied with
\* with_fractional_seconds(d), finalization returns an illegal-operation error
\* if d < 0 or d >= 1, and succeeds (given valid other fields) for every d with
\* 0 <= d < 1, zero of any sign and exponent included.
C9_ArbitraryFractionRange ==
  (Built /\ LastFractionBy("with_fractional_seconds")) =>
    LET d == Unwrap(args.fraction).decimal IN
    /\ (ValueBelowZero(d) \/ ValueAtLeastOne(d)) => result.kind = "Err"
    /\ (ArgsValid /\ ~ValueBelowZero(d) /\ ~ValueAtLeastOne(d)) =>
         /\ result.kind = "Ok"
         /\ result.timestamp.precision = Second
         /\ result.timestamp.fractional_seconds = Some(Arbitrary(d))

C9_Witness ==
  /\ Built
  /\ LastFractionBy("with_fractional_seconds")
  /\ Unwrap(args.fraction).decimal = Decimal(Positive, MagOf(1000), -3)
  /\ ArgsValid
  /\ result.kind = "Err"

\* C10: finalization fails whenever the sub-second amount of a Digits setter
\* is one second or more (ms >= 1000, us >= 1000000, ns >= 1000000000), for
\* every 32-bit argument, so no built timestamp stores a nanosecond >= 10^9.
C10_SubSecondOverflowFails ==
  Built =>
    /\ (/\ \/ LastFractionBy("with_milliseconds")
              /\ U32Ge(Unwrap(args.fraction).value, 1000)
           \/ LastFractionBy("with_microseconds")
              /\ U32Ge(Unwrap(args.fraction).value, 1000000)
           \/ LastFractionBy("with_nanoseconds")
              /\ U32Ge(Unwrap(args.fraction).value, 1000000000)
           \/ LastFractionBy("with_nanoseconds_and_precision")
              /\ U32Ge(Unwrap(args.fraction).value, 1000000000))
         => result.kind = "Err"
    /\ result.kind = "Ok" => result.timestamp.date_time.nanosecond < 1000000000

-----------------------------------------------------------------------------
(* Claims about the builder's states and the Timestamps it constructs      *)

SetterStages ==
  {"MonthSetter", "DaySetter", "HourAndMinuteSetter", "SecondSetter",
   "FractionalSecondSetter"}

\* the precision a builder has when it is wrapped in the given setter type
StagePrecision(s) ==
  CASE s = "MonthSetter" -> Year [] s = "DaySetter" -> Month
    [] s = "HourAndMinuteSetter" -> Day [] s = "SecondSetter" -> HourAndMinute
    [] s = "FractionalSecondSetter" -> Second

FieldsAgree(b) ==
  LET rank == PrecisionRank(b.precision) IN
  /\ rank >= PrecisionRank(Month) => IsSome(b.month)
  /\ rank >= PrecisionRank(Day) => IsSome(b.day)
  /\ rank >= PrecisionRank(HourAndMinute) => IsSome(b.hour) /\ IsSome(b.minute)
  /\ b.precision = Second => IsSome(b.second)

\* C11: in every builder state of the setter chain (shortcuts included) the
\* fields up to the configured precision are set, so configure_datetime never
\* takes a "missing field" panic; the builder's precision is that of the setter
\* stage it is at, and a built Timestamp has the precision of its builder.
C11_PrecisionAndFieldsAgree ==
  stage \in SetterStages \cup {"Start", "Built", "Panicked"} =>
    /\ FieldsAgree(builder)
    /\ configure_datetime(builder, ZeroDateTime).kind # "Panic"
    /\ stage \in SetterStages => builder.precision = StagePrecision(stage)
    /\ (stage = "Built" /\ result.kind = "Ok") =>
         result.timestamp.precision = builder.precision

C11_Witness ==
  /\ stage = "Built"
  /\ result.kind = "Ok"
  /\ result.timestamp.precision = Second
  /\ IsSome(builder.second)
  /\ args.fraction = None

DataModelInvariant(ts) ==
  LET rank == PrecisionRank(ts.precision) IN
  /\ rank < PrecisionRank(Month) => ts.date_time.month = 1
  /\ rank < PrecisionRank(Day) => ts.date_time.day = 1
  /\ rank < PrecisionRank(HourAndMinute) =>
       ts.date_time.hour = 0 /\ ts.date_time.minute = 0
  /\ rank < PrecisionRank(Second) => ts.date_time.second = 0
  /\ IsSome(ts.fractional_seconds) => ts.precision = Second

\* C12: every Timestamp a successful finalization or Timestamp::from_datetime
\* constructs keeps the fields finer than its precision at their minimum and
\* has fractional seconds only at Second precision.
C12_DataModelInvariant ==
  (stage \in {"Built", "Converted"} /\ result.kind = "Ok") =>
    DataModelInvariant(result.timestamp)

-----------------------------------------------------------------------------
(* Claims about == and ion_eq of Timestamps                                *)

Compared == eq_result # Pending /\ ion_eq_result # Pending
EqHolds == eq_result = Returned(TRUE)
IonEqHolds == ion_eq_result = Returned(TRUE)
EqFails == eq_result = Returned(FALSE)
IonEqFails == ion_eq_result = Returned(FALSE)

\* the date and time a chain of calls was given
FieldsOf(c) ==
  [year |-> c.year, month |-> c.month, day |-> c.day, hour |-> c.hour,
   minute |-> c.minute, second |-> c.second, nanosecond |-> 0]

\* left is finalized from local fields at offset o, right from the
\* corresponding UTC fields at the same offset, at the same precision
LocalAndUtcFields ==
  /\ left.call.level \in {HourAndMinute, Second}
  /\ right.call.level = left.call.level
  /\ left.call.fraction = None /\ right.call.fraction = None
  /\ left.call.finish.kind = "local" /\ right.call.finish.kind = "utc"
  /\ right.call.finish.offset = left.call.finish.offset
  /\ Abs(left.call.finish.offset) < 1440
  /\ FieldsOf(right.call) = AddSeconds(FieldsOf(left.call), -left.call.finish.offset * 60)

\* C13: a Timestamp finalized with build_at_offset(o) from local fields is ==
\* and ion_eq to the one finalized with build_utc_fields_at_offset(o) from the
\* corresponding UTC fields, at HourAndMinute and at Second precision.
C13_LocalAndUtcFieldsAgree ==
  LocalAndUtcFields =>
    /\ eq_result # Pending => EqHolds
    /\ ion_eq_result # Pending => IonEqHolds

C13_Witness ==
  /\ LocalAndUtcFields
  /\ left.call.finish.offset = 300
  /\ left.call.day # right.call.day
  /\ left.call.level = Second
  /\ EqHolds /\ IonEqHolds

\* the digit count and the nanoseconds a Digits setter call stores
DigitsOfCall(f) ==
  CASE f.setter = "with_milliseconds" -> 3
    [] f.setter = "with_microseconds" -> 6
    [] f.setter = "with_nanoseconds" -> 9
    [] f.setter = "with_nanoseconds_and_precision" -> U32Val(f.digits)
NanosOfCall(f) ==
  CASE f.setter = "with_milliseconds" -> U32Val(f.value) * 1000000
    [] f.setter = "with_microseconds" -> U32Val(f.value) * 1000
    [] OTHER -> U32Val(f.value)

IsDigitsCall(fraction) ==
  IsSome(fraction) /\ Unwrap(fraction).setter # "with_fractional_seconds"
IsArbitraryCall(fraction) ==
  IsSome(fraction) /\ Unwrap(fraction).setter = "with_fractional_seconds"

\* the calls differ in nothing but the fractional-seconds setter
SameButFraction(c1, c2) == [c1 EXCEPT !.fraction = None] = [c2 EXCEPT !.fraction = None]

\* left holds a value of exactly n digits (1 <= n <= 9) as Digits(n), right
\* holds the same value as Arbitrary(Decimal(coefficient, -n))
SameValueTwoMantissas ==
  /\ SameButFraction(left.call, right.call)
  /\ IsDigitsCall(left.call.fraction) /\ IsArbitraryCall(right.call.fraction)
  /\ LET f == Unwrap(left.call.fraction)
         d == Unwrap(right.call.fraction).decimal
         n == DigitsOfCall(f)
     IN  /\ n >= 1 /\ n <= 9
         /\ NanosOfCall(f) < 1000000000
         /\ NanosOfCall(f) % Pow(10, 9 - n) = 0
         /\ d.exponent = -n
         /\ d.coefficient.sign = Positive
         /\ MagValue(d.coefficient.magnitude) = NanosOfCall(f) \div Pow(10, 9 - n)

\* C14: a Timestamp holding a fraction of n digits as Digits(n) is == and ion_eq
\* to the otherwise identical one holding it as Arbitrary(Decimal(c, -n)),
\* in either order of the operands.
C14_MantissaInsensitive ==
  (SameValueTwoMantissas /\ Compared) =>
    /\ EqHolds /\ IonEqHolds
    /\ Timestamp_eq(right.timestamp, left.timestamp) = Returned(TRUE)
    /\ Timestamp_ion_eq(right.timestamp, left.timestamp) = Returned(TRUE)

C14_Witness ==
  /\ SameValueTwoMantissas
  /\ Unwrap(left.call.fraction) = Unwrap(Millis(6))
  /\ EqHolds /\ IonEqHolds

\* the UTC date and time of a Timestamp, to the second
InstantOf(ts) == [ts.date_time EXCEPT !.nanosecond = 0]

HasFraction(ts) ==
  IsSome(ts.fractional_seconds) /\ ~Mantissa_is_empty(Unwrap(ts.fractional_seconds))

\* the date-time fields both Timestamps declare are the same
SharedFieldsAgree(a, b) ==
  LET rank == IF PrecisionRank(a.precision) < PrecisionRank(b.precision)
              THEN PrecisionRank(a.precision) ELSE PrecisionRank(b.precision)
      x == a.date_time
      y == b.date_time
  IN  /\ x.year = y.year
      /\ rank >= PrecisionRank(Month) => x.month = y.month
      /\ rank >= PrecisionRank(Day) => x.day = y.day
      /\ rank >= PrecisionRank(HourAndMinute) =>
           x.hour = y.hour /\ x.minute = y.minute /\ a.offset = b.offset
      /\ rank >= PrecisionRank(Second) => x.second = y.second

TagsDiffer == left.timestamp.precision # right.timestamp.precision

\* both at Second precision, exactly one of them with fractional seconds set
OneHasFractionSet ==
  /\ left.timestamp.precision = Second /\ right.timestamp.precision = Second
  /\ (left.timestamp.fractional_seconds = None)
       # (right.timestamp.fractional_seconds = None)

FractionNanos(ts) ==
  IF ts.fractional_seconds = None THEN 0
  ELSE LET m == Unwrap(ts.fractional_seconds)
       IN  IF m.kind = "Digits" THEN ts.date_time.nanosecond
           ELSE MagValue(m.decimal.coefficient.magnitude)
                  * Pow(10, 9 + m.decimal.exponent)

\* the decimals of the callers have at most nine fractional digits
SameInstant(a, b) ==
  /\ InstantOf(a) = InstantOf(b)
  /\ a.date_time.nanosecond < 1000000000 /\ b.date_time.nanosecond < 1000000000
  /\ FractionNanos(a) = FractionNanos(b)

\* C16: two Timestamps that represent the same instant are ==, whatever their
\* precisions and offsets.
C16_SameInstantIsEqual ==
  (eq_result # Pending /\ SameInstant(left.timestamp, right.timestamp)) => EqHolds

\* left is finalized at a known offset, right from the same calls with
\* build_at_unknown_offset
KnownAndUnknownOffset ==
  /\ left.call.level \in {HourAndMinute, Second}
  /\ left.call.finish.kind \in {"local", "utc"}
  /\ right.call = [left.call EXCEPT !.finish = Unknown]

\* the statement as the specification has it: never == and never ion_eq
C17_AsStated ==
  (KnownAndUnknownOffset /\ Compared) => EqFails /\ IonEqFails

\* C17: a Timestamp finalized at a known offset is never ion_eq to the one
\* finalized from the same fields at an unknown offset; the two are == exactly
\* when the fields denote the same UTC instant, that is when the offset is 0 or
\* the fields were given as UTC fields.
C17_KnownAndUnknownOffset ==
  (KnownAndUnknownOffset /\ Compared) =>
    /\ IonEqFails
    /\ eq_result.kind = "Ok" =>
         (EqHolds <=> (left.call.finish.kind = "utc" \/ left.call.finish.offset = 0))

C17_Witness ==
  /\ KnownAndUnknownOffset
  /\ left.call.finish = Utc(-300)
  /\ EqHolds /\ IonEqFails

\* C18: both relations are reflexive and symmetric.
C18_ReflexiveAndSymmetric ==
  Compared =>
    /\ eq_result = Timestamp_eq(right.timestamp, left.timestamp)
    /\ ion_eq_result = Timestamp_ion_eq(right.timestamp, left.timestamp)
    /\ left.timestamp = right.timestamp => EqHolds /\ IonEqHolds

\* reflexivity and symmetry over the Timestamps whose stored nanoseconds are
\* below one second
ReflexiveAndSymmetricBelowOneSecond ==
  ( /\ Compared
    /\ left.timestamp.date_time.nanosecond < 1000000000
    /\ right.timestamp.date_time.nanosecond < 1000000000 ) =>
    /\ eq_result = Timestamp_eq(right.timestamp, left.timestamp)
    /\ ion_eq_result = Timestamp_ion_eq(right.timestamp, left.timestamp)
    /\ left.timestamp = right.timestamp => EqHolds /\ IonEqHolds

\* both built by the same calls but for the value given to the same Digits setter
SameDigitsOtherValue ==
  /\ SameButFraction(left.call, right.call)
  /\ IsDigitsCall(left.call.fraction) /\ IsDigitsCall(right.call.fraction)
  /\ LET f1 == Unwrap(left.call.fraction)
         f2 == Unwrap(right.call.fraction)
     IN  /\ DigitsOfCall(f1) = DigitsOfCall(f2)
         /\ DigitsOfCall(f1) >= 1
         /\ NanosOfCall(f1) # NanosOfCall(f2)
         /\ NanosOfCall(f1) < 1000000000 /\ NanosOfCall(f2) < 1000000000

\* C19: Timestamps whose fractional seconds have the same digit count but
\* different values are neither == nor ion_eq.
C19_DifferentFractionsDiffer ==
  (SameDigitsOtherValue /\ Compared) => EqFails /\ IonEqFails

\* both built by the same calls but for the fractional seconds, which are
\* declared with different numbers of digits
DifferentScales ==
  /\ SameButFraction(left.call, right.call)
  /\ IsSome(left.call.fraction) /\ IsSome(right.call.fraction)
  /\ left.timestamp.date_time.nanosecond < 1000000000
  /\ right.timestamp.date_time.nanosecond < 1000000000
  /\ fractional_seconds_scale(left.timestamp) # fractional_seconds_scale(right.timestamp)

\* C20: Timestamps whose fractional seconds are declared with different numbers
\* of digits are neither == nor ion_eq, in either representation.
C20_DifferentScalesDiffer ==
  (DifferentScales /\ Compared) => EqFails /\ IonEqFails

\* the fractional seconds of the chain, if any, are some the builder accepts
\* and below one second
FractionValid ==
  \/ args.fraction = None
  \/ /\ LastFractionBy("with_fractional_seconds")
     /\ ~ValueBelowZero(Unwrap(args.fraction).decimal)
     /\ ~ValueAtLeastOne(Unwrap(args.fraction).decimal)
  \/ /\ IsSome(builder.nanoseconds)
     /\ U32Lt(Unwrap(builder.nanoseconds), 1000000000)

\* C27: a finalization at an offset of 24 hours or more (|o| >= 1440 minutes),
\* whether or not o * 60 fits in 32 bits, returns the illegal-operation error;
\* at an offset below 24 hours with valid fields it returns Ok; a Timestamp
\* built at offset o reports offset() = Some(o), one built at an unknown offset
\* reports None.
C27_OffsetRange ==
  /\ (stage \in {"Built", "Panicked"} /\ IsSome(builder.offset)
        /\ Abs(Unwrap(builder.offset)) >= 1440) => result.kind = "Err"
  /\ (Built /\ IsSome(builder.offset) /\ Abs(Unwrap(builder.offset)) < 1440
        /\ ArgsValid /\ FractionValid) => result.kind = "Ok"
  /\ (Built /\ IsSome(args.year) /\ result.kind = "Ok") =>
       Timestamp_offset(result.timestamp) = builder.offset

\* the same for the offsets whose product with 60 fits in 32 bits
OffsetRangeWithoutOverflow ==
  (IsSome(builder.offset) /\ I32Mul(Unwrap(builder.offset), 60).overflow)
    \/ C27_OffsetRange

-----------------------------------------------------------------------------
(* Claims about the conversions out of a Timestamp                         *)

\* the mantissa is absent or counts digits of the stored nanoseconds
DigitsOrAbsent(ts) ==
  \/ ts.fractional_seconds = None
  \/ Unwrap(ts.fractional_seconds).kind = "Digits"

\* C21: converting a Timestamp into a NaiveDateTime returns the
\* illegal-operation error exactly when its offset is known, converting it into
\* a DateTime<FixedOffset> returns it exactly when its offset is unknown; a
\* conversion that succeeds on a Timestamp whose mantissa is absent or Digits
\* yields the Timestamp's own date-time fields and nanoseconds (and offset)
C21_ConversionsFailOnWrongOffset ==
  /\ stage = "IntoNaiveDateTime" =>
       /\ into.kind = "Err" <=> IsSome(result.timestamp.offset)
       /\ (into.kind = "Ok" /\ DigitsOrAbsent(result.timestamp)) =>
            into.datetime = result.timestamp.date_time
  /\ stage = "IntoDateTimeFixedOffset" =>
       /\ into.kind = "Err" <=> result.timestamp.offset = None
       /\ (into.kind = "Ok" /\ DigitsOrAbsent(result.timestamp)) =>
            /\ into.datetime.utc = result.timestamp.date_time
            /\ into.datetime.offset = Unwrap(result.timestamp.offset)

\* a Timestamp with milliseconds, built at a non-zero offset, was into
\* into a DateTime<FixedOffset>
C21_Witness ==
  /\ stage = "IntoDateTimeFixedOffset"
  /\ into.kind = "Ok"
  /\ result.timestamp.fractional_seconds = Some(Digits(U32(3)))
  /\ into.datetime.utc.nanosecond = 192000000
  /\ into.datetime.offset = -18000

-----------------------------------------------------------------------------
(* Claims about the shortcuts and the fractional-second setters            *)

\* the builder the one-field-at-a-time chain reaches for the caller's
\* arguments: with_year, with_month, with_day, with_hour_and_minute, with_second
StepByStep(a) ==
  LET y == Timestamp_with_year(Unwrap(a.year))
      m == IF IsSome(a.month) THEN MonthSetter_with_month(y, Unwrap(a.month)) ELSE y
      d == IF IsSome(a.day) THEN DaySetter_with_day(m, Unwrap(a.day)) ELSE m
      h == IF IsSome(a.hour)
           THEN HourAndMinuteSetter_with_hour_and_minute(d, Unwrap(a.hour),
                                                         Unwrap(a.minute))
           ELSE d
  IN  IF IsSome(a.second) THEN SecondSetter_with_second(h, Unwrap(a.second)) ELSE h

\* ... followed by the caller's with_milliseconds, when there is one
StepByStepMillis(a) ==
  IF IsSome(a.fraction)
  THEN with_milliseconds(StepByStep(a), Unwrap(a.fraction).value)
  ELSE StepByStep(a)

NoFractionOrMillis == args.fraction = None \/ LastFractionBy("with_milliseconds")

\* C22: whichever way the caller went (with_ymd, with_hms, with_ymd_hms,
\* with_ymd_hms_millis, or one field at a time), the builder is the one the
\* step-by-step chain reaches for the same arguments, and the Timestamp built
\* from it has the same precision and mantissa as, and is == and ion_eq to, the
\* one built from the step-by-step chain
C22_ShortcutsAreTheChain ==
  /\ (stage \in SetterStages /\ NoFractionOrMillis) => builder = StepByStepMillis(args)
  /\ (stage = "Built" /\ IsSome(args.year) /\ NoFractionOrMillis) =>
       LET chain == build([StepByStepMillis(args) EXCEPT
                             !.offset = builder.offset,
                             !.fields_are_utc = builder.fields_are_utc])
       IN  /\ chain.kind = result.kind
           /\ result.kind = "Ok" =>
                /\ chain.timestamp.precision = result.timestamp.precision
                /\ chain.timestamp.fractional_seconds
                     = result.timestamp.fractional_seconds
                /\ Timestamp_eq(chain.timestamp, result.timestamp) = Returned(TRUE)
                /\ Timestamp_ion_eq(chain.timestamp, result.timestamp) = Returned(TRUE)

\* the arguments of with_ymd_hms_millis(2021, 2, 5, 16, 43, 51, 192), built at
\* an offset
C22_Witness ==
  /\ stage = "Built"
  /\ result.kind = "Ok"
  /\ args.year = Some(U32(2021)) /\ args.month = Some(U32(2)) /\ args.day = Some(U32(5))
  /\ args.hour = Some(U32(16)) /\ args.minute = Some(U32(43))
  /\ args.second = Some(U32(51))
  /\ LastFractionBy("with_milliseconds")
  /\ Unwrap(args.fraction).value = U32(192)
  /\ builder.offset = Some(-300)
  /\ result.timestamp.fractional_seconds = Some(Digits(U32(3)))

\* the mantissa and the nanoseconds the caller's last fractional-seconds setter
\* asks for
LastCallMantissa ==
  LET f == Unwrap(args.fraction) IN
  CASE f.setter = "with_nanoseconds" -> Digits(U32(9))
    [] f.setter = "with_microseconds" -> Digits(U32(6))
    [] f.setter = "with_milliseconds" -> Digits(U32(3))
    [] f.setter = "with_nanoseconds_and_precision" -> Digits(f.digits)
    [] f.setter = "with_fractional_seconds" -> Arbitrary(f.decimal)

LastCallNanoseconds ==
  LET f == Unwrap(args.fraction) IN
  CASE f.setter = "with_nanoseconds" -> f.value
    [] f.setter = "with_microseconds" -> MicrosToNanos(f.value).value
    [] f.setter = "with_milliseconds" -> MillisToNanos(f.value).value
    [] f.setter = "with_nanoseconds_and_precision" -> f.value
    [] f.setter = "with_fractional_seconds" -> U32(0)

\* C23: after any sequence of fractional-seconds setters the builder is the
\* step-by-step builder of the other arguments with the mantissa and the
\* nanoseconds of the last call only (with_fractional_seconds clears the cached
\* nanoseconds), and a Timestamp built from it holds that mantissa and those
\* nanoseconds (0 after with_fractional_seconds)
C23_LastFractionCallWins ==
  /\ (stage = "FractionalSecondSetter" /\ IsSome(args.fraction)) =>
       builder = [StepByStep(args) EXCEPT
                    !.fractional_seconds = Some(LastCallMantissa),
                    !.nanoseconds = IF LastFractionBy("with_fractional_seconds")
                                    THEN None ELSE Some(LastCallNanoseconds)]
  /\ (stage = "Built" /\ result.kind = "Ok" /\ IsSome(args.fraction)) =>
       /\ result.timestamp.fractional_seconds = Some(LastCallMantissa)
       /\ U32(result.timestamp.date_time.nanosecond) = LastCallNanoseconds

\* with_fractional_seconds was called after a setter that had cached
\* nanoseconds, and the Timestamp was built
C23_Witness ==
  /\ stage = "Built"
  /\ result.kind = "Ok"
  /\ LastFractionBy("with_fractional_seconds")
  /\ args.earlier = Some("Digits")
  /\ Unwrap(args.fraction).decimal = Decimal(Positive, MagOf(192), -3)
  /\ result.timestamp.date_time.nanosecond = 0

-----------------------------------------------------------------------------
(* Claims about the text of a Timestamp                                    *)

TwoDigits(n) == IF n < 10 THEN "0" \o Display(n) ELSE Display(n)

FourDigits(n) ==
  IF n < 10 THEN "000" \o Display(n)
  ELSE IF n < 100 THEN "00" \o Display(n)
  ELSE IF n < 1000 THEN "0" \o Display(n) ELSE Display(n)

\* the date-time fields of a Timestamp as expressed in its own offset
OwnFields(ts) ==
  IF IsSome(ts.offset) THEN AddSeconds(ts.date_time, Unwrap(ts.offset))
  ELSE ts.date_time

\* -00:00 for an unknown offset, else the sign and hh:mm of the offset
OffsetSuffix(ts) ==
  IF ts.offset = None THEN "-00:00"
  ELSE LET o == Unwrap(Timestamp_offset(ts))
       IN  (IF o >= 0 THEN "+" ELSE "-")
             \o TwoDigits(Abs(o) \div 60) \o ":" \o TwoDigits(Abs(o) % 60)

DateText(ts) ==
  LET f == OwnFields(ts) IN
  FourDigits(f.year) \o "-" \o TwoDigits(f.month) \o "-" \o TwoDigits(f.day)

MinuteText(ts) ==
  LET f == OwnFields(ts) IN
  DateText(ts) \o "T" \o TwoDigits(f.hour) \o ":" \o TwoDigits(f.minute)

\* YYYY-MM-DDThh:mm:ss, a fractional suffix, the offset; the suffix is
\* missing exactly when the mantissa is absent or empty, and else is a point
\* followed by digits
SecondGrammar(ts, s) ==
  LET head == MinuteText(ts) \o ":" \o TwoDigits(OwnFields(ts).second)
      tail == OffsetSuffix(ts)
      fraction == SubSeq(s, Len(head) + 1, Len(s) - Len(tail))
  IN  /\ Len(s) >= Len(head) + Len(tail)
      /\ SubSeq(s, 1, Len(head)) = head
      /\ SubSeq(s, Len(s) - Len(tail) + 1, Len(s)) = tail
      /\ IF \/ ts.fractional_seconds = None
            \/ Mantissa_is_empty(Unwrap(ts.fractional_seconds))
         THEN fraction = ""
         ELSE /\ Len(fraction) >= 2
              /\ SubSeq(fraction, 1, 1) = "."
              /\ \A k \in 2..Len(fraction) :
                   \E d \in 1..10 : SubSeq(fraction, k, k) = DigitText[d]

\* C24: the text format_timestamp writes is the grammar of the Timestamp's
\* precision over the fields in the Timestamp's own offset: YYYYT, YYYY-MMT,
\* YYYY-MM-DDT without an offset; YYYY-MM-DDThh:mm and the offset;
\* YYYY-MM-DDThh:mm:ss, the fractional suffix (none for an absent or empty
\* mantissa) and the offset; the offset is -00:00 when unknown, else + or - by
\* non-negativity and the hours and minutes of its magnitude (+00:00 for zero).
C24_TextGrammar ==
  (stage = "Formatted" /\ text.kind = "Ok") =>
    LET ts == result.timestamp
        f == OwnFields(ts)
    IN  CASE ts.precision = Year -> text.text = FourDigits(f.year) \o "T"
          [] ts.precision = Month ->
               text.text = FourDigits(f.year) \o "-" \o TwoDigits(f.month) \o "T"
          [] ts.precision = Day -> text.text = DateText(ts) \o "T"
          [] ts.precision = HourAndMinute ->
               text.text = MinuteText(ts) \o OffsetSuffix(ts)
          [] ts.precision = Second -> SecondGrammar(ts, text.text)

\* 2021-02-05T16:43:51.192 at a known zero offset was rendered
C24_Witness ==
  /\ stage = "Formatted"
  /\ text = OkText("2021-02-05T16:43:51.192+00:00")

\* C25: for every Timestamp a finalization of the builder returned as Ok,
\* format_timestamp into a String returns Ok: it takes none of the hard failures
\* and none of its unsigned subtractions underflows.
C25_RendererTotal ==
  (stage = "Formatted" /\ IsSome(args.year)) => text.kind = "Ok"

-----------------------------------------------------------------------------
(* Claims about chains of comparisons                                      *)

\* C28: == is transitive, and so is ion_eq: when the first Timestamp equals
\* the second and the second equals the third, the first equals the third,
\* for mantissas absent, Digits of any count, and Arbitrary (zero coefficients
\* of any exponent included).
C28_Transitive ==
  third # Pending =>
    LET a == left.timestamp
        b == right.timestamp
        c == third.timestamp
    IN  /\ (eq_result = Returned(TRUE) /\ Timestamp_eq(b, c) = Returned(TRUE)) =>
             Timestamp_eq(a, c) = Returned(TRUE)
        /\ (ion_eq_result = Returned(TRUE)
              /\ Timestamp_ion_eq(b, c) = Returned(TRUE)) =>
             Timestamp_ion_eq(a, c) = Returned(TRUE)

\* the same for chains of Timestamps that all hold Digits mantissas, or none
TransitiveAmongDigits ==
  (\A x \in {left, right, third} :
      /\ x # Pending
      /\ DigitsOrAbsent(x.timestamp)
      /\ (IsSome(x.timestamp.fractional_seconds) =>
            ~Mantissa_is_empty(Unwrap(x.timestamp.fractional_seconds))))
    => C28_Transitive

\* C29: representation equality refines value equality on the Timestamps the
\* builder returns: whenever a.ion_eq(b) is true, a == b is true.
C29_IonEqImpliesEq ==
  (third = Pending /\ Compared /\ IonEqHolds) => EqHolds

\* the same for Timestamps whose offset is unknown or a whole number of minutes
IonEqImpliesEqAtWholeMinutes ==
  (left # Pending
     /\ (IsSome(left.timestamp.offset) => Unwrap(left.timestamp.offset) % 60 = 0))
    => C29_IonEqImpliesEq

=============================================================================
